---- MODULE Spec2Model ----
(***************************************************************************)
(* Model of the utility modules under src/api/utils: the LoggerManager     *)
(* handler lifecycle (logger_manager.py), the process-wide logger of       *)
(* app_logger.py, the SchedulerManager of scheduler.py, the access check   *)
(* of auth.py, the range filter of time_range_bound.py and the date        *)
(* parser of datetime_converter.py.                                        *)
(*                                                                         *)
(* The logging backend (loguru) and the scheduling backend (APScheduler)   *)
(* are modelled by the part of their behaviour the source relies on:       *)
(* loguru issues increasing handler ids, logger.remove() without argument  *)
(* removes every handler, logger.remove(id) raises ValueError for an id    *)
(* that is not registered (the case cleanup() catches); a scheduler's      *)
(* start() raises when it is already running, its executor starts at most  *)
(* max_instances runs of a job at a time and skips a run beyond that, and  *)
(* its shutdown(wait=True) returns when no run is in progress. Of          *)
(* dateutil, relativedelta arithmetic raises when the result leaves the    *)
(* years a datetime can hold, and parser.parse answers with a datetime or  *)
(* with one of the errors it documents.                                    *)
(*                                                                         *)
(* Specifications:                                                         *)
(*   SpecLM    calls on one LoggerManager, every configuration             *)
(*   SpecLM2   calls on two LoggerManagers of one process                  *)
(*   SpecApp   get_app_logger / cleanup_logger from several threads        *)
(*   SpecSched calls on the SchedulerManager, one at a time                *)
(*   SpecRace  get_scheduler / init_scheduler from several threads         *)
(*   SpecJobs  job runs in progress, shutdown waiting for them             *)
(*   SpecAuth  check_user_access / require_access on one request           *)
(*   SpecRange get_time_range_bounds / build_time_range_query /            *)
(*             search_with_time_range on one call                          *)
(*   SpecDate  parse_date_string / parse_relative_date on one input        *)
(*   SpecPerf  one call of a callable wrapped by log_performance           *)
(***************************************************************************)
EXTENDS Integers, Sequences, FiniteSets, TLC

VARIABLES
    handlers,       \* loguru: the registered sinks, a set of [id, kind, filter, owner]
    nextId,         \* loguru: the id the next logger.add() returns
    print,          \* builtins.print: "builtin" or the manager whose custom_print is installed
    mgr,            \* the LoggerManager objects, by name
    last,           \* the last call made, its arguments and its outcome
    log_manager,    \* app_logger._log_manager
    app_logger,     \* app_logger._logger
    a_pc,           \* app_logger: each thread's position in get_app_logger
    a_new,          \* app_logger: the manager each thread is constructing
    a_ret,          \* app_logger: what each thread's last call returned
    a_dead,         \* app_logger: the managers whose __del__ has run
    initRuns,       \* app_logger: initialization sequences entered since _logger was last None
    sm,             \* scheduler.py: the SchedulerManager, its schedulers and the exit hooks
    s_pc,           \* scheduler.py: each thread's position in get_scheduler / init_scheduler
    s_via,          \* scheduler.py: whether the thread entered through get_scheduler
    s_ret           \* scheduler.py: what each thread's last call returned or raised

lmVars  == <<handlers, nextId, print, mgr>>
appVars == <<log_manager, app_logger, a_pc, a_new, a_ret, a_dead, initRuns>>
vars    == <<handlers, nextId, print, mgr, last,
             log_manager, app_logger, a_pc, a_new, a_ret, a_dead, initRuns,
             sm, s_pc, s_via, s_ret>>
schedVars == <<sm, s_pc, s_via, s_ret>>

(***************************************************************************)
(* Bounds of the model.                                                    *)
(***************************************************************************)
MaxId     == 7      \* one manager: handler ids 0 .. MaxId - 1 may be issued
MaxId2    == 5      \* two managers: handler ids 0 .. MaxId2 - 1 may be issued
MaxExtras == 1      \* extra_handlers specs per manager
MaxScheds == 2      \* BackgroundScheduler objects created
MaxJobs   == 2      \* jobs added

MgrOrder == <<"m1", "m2", "m3">>        \* the managers, in the order they are constructed
Mgrs    == {"m1", "m2", "m3"}
LMgrs   == {"m1", "m2"}                 \* managers of the LoggerManager specification
Threads == {"t1", "t2"}
None    == "None"
Filters == {None, "p1", "p2"}           \* filter_func values: None or a predicate
OwnFilter == "q"                        \* a filter a sink's own spec carries

Range(s) == {s[i] : i \in 1..Len(s)}
MgrRank(m) == CHOOSE i \in 1..Len(MgrOrder) : MgrOrder[i] = m

(***************************************************************************)
(* The world the LoggerManager methods act on, as one record, so that the  *)
(* methods compose as the code composes them (set_filter = cleanup; setup).*)
(***************************************************************************)
World == [handlers |-> handlers, nextId |-> nextId, print |-> print, mgr |-> mgr]

Install(w) ==
    /\ handlers' = w.handlers
    /\ nextId'   = w.nextId
    /\ print'    = w.print
    /\ mgr'      = w.mgr

\* A sink spec of extra_handlers: 'filter' in handler (has), its value, and
\* whether the configuration itself carried the filter (own).
ExtraSpecs == { [has |-> FALSE, filter |-> None,      own |-> FALSE],
                [has |-> TRUE,  filter |-> OwnFilter, own |-> TRUE ] }

RECURSIVE SeqsUpTo(_, _)
SeqsUpTo(S, n) ==
    IF n = 0 THEN {<<>>}
    ELSE SeqsUpTo(S, n - 1) \cup
         { Append(s, x) : s \in {t \in SeqsUpTo(S, n - 1) : Len(t) = n - 1}, x \in S }

Unbuilt ==
    [ built |-> FALSE, handler_ids |-> <<>>, filter_func |-> None,
      extra_handlers |-> <<>>, enable_print_redirect |-> FALSE,
      print_redirected |-> FALSE, original_print |-> "builtin" ]

\* loguru at import: the default stderr handler has id 0.
DefaultHandlers == { [id |-> 0, kind |-> "default", filter |-> None, owner |-> "loguru"] }

----------------------------------------------------------------------------
(* loguru *)

Registered(w, id) == \E h \in w.handlers : h.id = id

\* logger.remove(): every handler goes.
LoggerRemoveAll(w) == [w EXCEPT !.handlers = {}]

\* logger.remove(id) for a registered id.
LoggerRemove(w, id) == [w EXCEPT !.handlers = {h \in @ : h.id # id}]

\* logger.add(...): registers a sink under the next id, which it returns.
LoggerAdd(w, kind, flt, m) ==
    [w EXCEPT !.handlers = @ \cup {[id |-> w.nextId, kind |-> kind, filter |-> flt, owner |-> m]},
              !.nextId   = @ + 1]

----------------------------------------------------------------------------
(* LoggerManager *)

\* self._handler_ids.append(handler_id)
Track(w, m, id) == [w EXCEPT !.mgr[m].handler_ids = Append(@, id)]

\* handler_id = logger.add(sys.stdout, ..., filter=self.filter_func); append
SetupConsole(w, m) == Track(LoggerAdd(w, "console", w.mgr[m].filter_func, m), m, w.nextId)

\* handler_id = logger.add(sink=self.log_file_path, ..., filter=self.filter_func); append
SetupFile(w, m) == Track(LoggerAdd(w, "file", w.mgr[m].filter_func, m), m, w.nextId)

\* SetupExtra with the append to self._handler_ids forgotten.
SetupExtraUntracked(w, m, i) ==
    LoggerAdd(w, "extra", IF w.mgr[m].extra_handlers[i].has
                          THEN w.mgr[m].extra_handlers[i].filter ELSE None, m)

\* One turn of the loop over self.extra_handlers: the spec dict itself is updated.
SetupExtra(w, m, i) ==
    LET h  == w.mgr[m].extra_handlers[i]
        h2 == IF ~h.has /\ w.mgr[m].filter_func # None
              THEN [h EXCEPT !.has = TRUE, !.filter = w.mgr[m].filter_func]
              ELSE h
        w2 == [w EXCEPT !.mgr[m].extra_handlers[i] = h2]
    IN  Track(LoggerAdd(w2, "extra", IF h2.has THEN h2.filter ELSE None, m), m, w2.nextId)

RECURSIVE SetupExtras(_, _, _)
SetupExtras(w, m, i) ==
    IF i > Len(w.mgr[m].extra_handlers) THEN w
    ELSE SetupExtras(SetupExtra(w, m, i), m, i + 1)

\* _redirect_print
RedirectPrint(w, m) ==
    IF w.mgr[m].print_redirected THEN w
    ELSE [w EXCEPT !.print = m, !.mgr[m].print_redirected = TRUE]

\* restore_print without its guard on self._print_redirected.
RestorePrintUnguarded(w, m) ==
    [w EXCEPT !.print = w.mgr[m].original_print, !.mgr[m].print_redirected = FALSE]

\* restore_print
RestorePrint(w, m) ==
    IF w.mgr[m].print_redirected
    THEN [w EXCEPT !.print = w.mgr[m].original_print, !.mgr[m].print_redirected = FALSE]
    ELSE w

\* _setup_logger without the logger.remove() it begins with.
SetupLoggerKeepsSinks(w, m) ==
    LET w2 == SetupConsole(w, m)
        w3 == SetupFile(w2, m)
        w4 == SetupExtras(w3, m, 1)
    IN  IF w4.mgr[m].enable_print_redirect THEN RedirectPrint(w4, m) ELSE w4

\* _setup_logger
SetupLogger(w, m) ==
    LET w1 == LoggerRemoveAll(w)
        w2 == SetupConsole(w1, m)
        w3 == SetupFile(w2, m)
        w4 == SetupExtras(w3, m, 1)
    IN  IF w4.mgr[m].enable_print_redirect THEN RedirectPrint(w4, m) ELSE w4

\* __init__
Construct(w, m, cfg) ==
    SetupLogger(
      [w EXCEPT !.mgr[m] =
         [ built |-> TRUE, handler_ids |-> <<>>, filter_func |-> cfg.filter_func,
           extra_handlers |-> cfg.extra_handlers,
           enable_print_redirect |-> cfg.enable_print_redirect,
           print_redirected |-> FALSE, original_print |-> w.print ]], m)

\* The loop of cleanup(): logger.remove(id) for each tracked id, ValueError passed over.
RECURSIVE CleanupLoop(_, _)
CleanupLoop(w, ids) ==
    IF ids = <<>> THEN w
    ELSE CleanupLoop(IF Registered(w, Head(ids)) THEN LoggerRemove(w, Head(ids)) ELSE w,
                     Tail(ids))

\* cleanup with self._handler_ids.clear() forgotten.
CleanupKeepsList(w, m) == RestorePrint(CleanupLoop(w, w.mgr[m].handler_ids), m)

\* cleanup with self.restore_print() forgotten.
CleanupKeepsPrint(w, m) ==
    [CleanupLoop(w, w.mgr[m].handler_ids) EXCEPT !.mgr[m].handler_ids = <<>>]

\* cleanup
Cleanup(w, m) ==
    LET w1 == CleanupLoop(w, w.mgr[m].handler_ids)
        w2 == [w1 EXCEPT !.mgr[m].handler_ids = <<>>]
    IN  RestorePrint(w2, m)

\* set_filter
SetFilter(w, m, p) ==
    SetupLogger(Cleanup([w EXCEPT !.mgr[m].filter_func = p], m), m)

\* add_handler(**kwargs): own says whether kwargs carries 'filter'.
AddHandler(w, m, own) ==
    LET flt == IF ~own /\ w.mgr[m].filter_func # None THEN w.mgr[m].filter_func
               ELSE IF own THEN OwnFilter ELSE None
    IN  Track(LoggerAdd(w, "added", flt, m), m, w.nextId)

\* list.remove(x): the first occurrence goes.
RECURSIVE ListRemove(_, _)
ListRemove(s, x) ==
    IF s = <<>> THEN s
    ELSE IF Head(s) = x THEN Tail(s)
    ELSE <<Head(s)>> \o ListRemove(Tail(s), x)

\* remove_handler raises exactly when logger.remove(handler_id) does.
RemoveHandlerRaises(w, m, id) == ~Registered(w, id)

\* remove_handler, when logger.remove(handler_id) returns.
RemoveHandler(w, m, id) ==
    LET w1 == LoggerRemove(w, id)
    IN  IF id \in Range(w1.mgr[m].handler_ids)
        THEN [w1 EXCEPT !.mgr[m].handler_ids = ListRemove(@, id)]
        ELSE w1

----------------------------------------------------------------------------
(* The calls a program makes on LoggerManager objects, one at a time. *)

Call(op, m, f, id, out, pre) ==
    [op |-> op, m |-> m, f |-> f, id |-> id, out |-> out, pre |-> pre]

NoCall == Call("none", "none", None, 0, "ok", "none")

\* scheduler.py at import: scheduler_manager = SchedulerManager()
NewManager ==
    [ scheduler |-> 0, initialized |-> FALSE, scheds |-> <<>>, exitHooks |-> 0, nextJob |-> 1 ]

SchedIdle ==
    /\ sm = NewManager
    /\ s_pc = [t \in Threads |-> "idle"]
    /\ s_via = [t \in Threads |-> FALSE]
    /\ s_ret = [t \in Threads |-> 0]

AppIdle ==
    /\ log_manager = None
    /\ app_logger = None
    /\ a_pc = [t \in Threads |-> "idle"]
    /\ a_new = [t \in Threads |-> None]
    /\ a_ret = [t \in Threads |-> None]
    /\ a_dead = {}
    /\ initRuns = 0
    /\ SchedIdle

Configs ==
    [ filter_func : Filters, enable_print_redirect : BOOLEAN,
      extra_handlers : SeqsUpTo(ExtraSpecs, MaxExtras) ]

SetupSize(m) == 2 + Len(mgr[m].extra_handlers)

LMInit ==
    /\ handlers = DefaultHandlers
    /\ nextId = 1
    /\ print = "builtin"
    /\ mgr = [m \in Mgrs |-> Unbuilt]
    /\ last = NoCall
    /\ AppIdle

\* LoggerManager(...): the managers are constructed in the order m1, m2.
LMConstruct(m, cfg, B) ==
    /\ ~mgr[m].built
    /\ \A o \in Mgrs : MgrRank(o) < MgrRank(m) => mgr[o].built
    /\ nextId + 2 + Len(cfg.extra_handlers) <= B
    /\ Install(Construct(World, m, cfg))
    /\ last' = Call("construct", m, cfg.filter_func, 0, "ok",
                    IF print = "builtin" THEN "plain" ELSE "redirected")
    /\ UNCHANGED <<appVars, schedVars>>

LMAddHandler(m, own, B) ==
    /\ mgr[m].built
    /\ nextId + 1 <= B
    /\ Install(AddHandler(World, m, own))
    /\ last' = Call("add_handler", m, None, nextId, "ok", IF own THEN "own" ELSE "inherit")
    /\ UNCHANGED <<appVars, schedVars>>

LMRemoveHandler(m, id) ==
    /\ mgr[m].built
    /\ IF RemoveHandlerRaises(World, m, id)
       THEN /\ UNCHANGED lmVars
            /\ last' = Call("remove_handler", m, None, id, "ValueError",
                            IF id < nextId THEN "stale" ELSE "unknown")
       ELSE /\ Install(RemoveHandler(World, m, id))
            /\ last' = Call("remove_handler", m, None, id, "ok", "registered")
    /\ UNCHANGED <<appVars, schedVars>>

LMSetFilter(m, p, B) ==
    /\ mgr[m].built
    /\ nextId + SetupSize(m) <= B
    /\ Install(SetFilter(World, m, p))
    /\ last' = Call("set_filter", m, p, 0, "ok",
                    IF \E h \in handlers : h.owner = m /\ h.kind = "added"
                    THEN "added" ELSE "base")
    /\ UNCHANGED <<appVars, schedVars>>

LMCleanup(m) ==
    /\ mgr[m].built
    /\ Install(Cleanup(World, m))
    /\ last' = Call("cleanup", m, None, 0, "ok",
                    IF \E id \in Range(mgr[m].handler_ids) : ~Registered(World, id)
                    THEN "stale"
                    ELSE IF mgr[m].handler_ids = <<>> /\ ~mgr[m].print_redirected
                    THEN "clean" ELSE "live")
    /\ UNCHANGED <<appVars, schedVars>>

LMRestorePrint(m) ==
    /\ mgr[m].built
    /\ Install(RestorePrint(World, m))
    /\ last' = Call("restore_print", m, None, 0, "ok",
                    IF mgr[m].print_redirected THEN "redirected" ELSE "plain")
    /\ UNCHANGED <<appVars, schedVars>>

LMRedirectPrint(m) ==
    /\ mgr[m].built
    /\ Install(RedirectPrint(World, m))
    /\ last' = Call("redirect_print", m, None, 0, "ok",
                    IF mgr[m].print_redirected THEN "redirected" ELSE "plain")
    /\ UNCHANGED <<appVars, schedVars>>

\* flush: logger.complete() once per tracked id, errors passed over.
LMFlush(m) ==
    /\ mgr[m].built
    /\ UNCHANGED lmVars
    /\ last' = Call("flush", m, None, 0, "ok", "none")
    /\ UNCHANGED <<appVars, schedVars>>

\* The calls on the managers M, with filters F, configurations C, own-filter
\* choices O for add_handler, and handler ids below B.
LMCalls(M, F, C, O, B) ==
    \/ \E m \in M, cfg \in C : LMConstruct(m, cfg, B)
    \/ \E m \in M, own \in O : LMAddHandler(m, own, B)
    \/ \E m \in M, id \in 0..nextId : LMRemoveHandler(m, id)
    \/ \E m \in M, p \in F : LMSetFilter(m, p, B)
    \/ \E m \in M : LMCleanup(m)
    \/ \E m \in M : LMRestorePrint(m)
    \/ \E m \in M : LMRedirectPrint(m)
    \/ \E m \in M : LMFlush(m)

\* One LoggerManager, every configuration.
LMNext == LMCalls({"m1"}, Filters, Configs, BOOLEAN, MaxId)

SpecLM == LMInit /\ [][LMNext]_vars

\* Two LoggerManagers in one process, without filters or extra sinks.
PlainConfigs ==
    [ filter_func : {None}, enable_print_redirect : BOOLEAN, extra_handlers : {<<>>} ]

LM2Next == LMCalls(LMgrs, {None}, PlainConfigs, {FALSE}, MaxId2)

SpecLM2 == LMInit /\ [][LM2Next]_vars

----------------------------------------------------------------------------
(* Properties of the LoggerManager calls. *)

HandlerOf(id) == CHOOSE h \in handlers : h.id = id
OnlyManager(m) == \A o \in Mgrs \ {m} : ~mgr[o].built

\* C3: remove_handler(id) with an identifier that was issued and is no longer
\* registered raises no error and leaves the tracked list and the sinks unchanged.
C3_RemoveUnregisteredIsNoOp ==
    [][ (last'.op = "remove_handler" /\ last'.id < nextId /\ ~Registered(World, last'.id))
        => (last'.out = "ok" /\ UNCHANGED lmVars) ]_vars

\* C4: after set_filter returns, no identifier issued before the call (those
\* below the backend's next id at the call) is registered or tracked; every
\* tracked identifier was issued during the rebuild and is registered.
C4_SetFilterInvalidatesOldIds ==
    [][ last'.op = "set_filter" =>
          /\ \A h \in handlers' : h.id >= nextId
          /\ \A id \in Range(mgr'[last'.m].handler_ids) :
                 /\ id >= nextId /\ id < nextId'
                 /\ \E h \in handlers' : h.id = id ]_vars

\* set_filter was called on a manager that held a sink from add_handler.
C4_Witness == last.op = "set_filter" /\ last.pre = "added" /\ handlers # {}

\* C5: after set_filter(p) the console sink, the file sink and every extra sink
\* whose configuration carried no filter of its own use p.
C5_SetFilterReachesEverySink ==
    last.op = "set_filter" =>
        LET m   == last.m
            ids == mgr[m].handler_ids
        IN  \A k \in 1..Len(ids) :
               (k <= 2 \/ ~mgr[m].extra_handlers[k - 2].own)
                   => HandlerOf(ids[k]).filter = last.f

C7_SetupProducesConsoleFileExtras ==
    last.op \in {"construct", "set_filter"} =>
        LET m   == last.m
            ids == mgr[m].handler_ids
            n   == Len(mgr[m].extra_handlers)
        IN  /\ Len(ids) = 2 + n
            /\ Cardinality(Range(ids)) = 2 + n
            /\ \A k \in 1..Len(ids) :
                  /\ \E h \in handlers : h.id = ids[k]
                  /\ HandlerOf(ids[k]).owner = m
                  /\ HandlerOf(ids[k]).kind =
                        (IF k = 1 THEN "console" ELSE IF k = 2 THEN "file" ELSE "extra")
            /\ \A h \in handlers : h.owner = m => h.id \in Range(ids)

\* set_filter rebuilt the sinks of a manager configured with an extra sink.
C7_Witness ==
    /\ last.op = "set_filter"
    /\ Len(mgr[last.m].extra_handlers) >= 1
    /\ Len(mgr[last.m].handler_ids) = 3

\* C8: _redirect_print when already redirected and restore_print when not
\* redirected change nothing; restore_print when redirected installs the print
\* captured at construction and clears the flag; right after a redirection a
\* restore_print would do exactly that; the captured print never changes.
C8_PrintRedirectIdempotent ==
    [][ /\ (last'.op = "redirect_print" /\ mgr[last'.m].print_redirected)
            => UNCHANGED lmVars
        /\ (last'.op = "restore_print" /\ ~mgr[last'.m].print_redirected)
            => UNCHANGED lmVars
        /\ (last'.op = "restore_print" /\ mgr[last'.m].print_redirected)
            => /\ print' = mgr[last'.m].original_print
               /\ ~mgr'[last'.m].print_redirected
        /\ (last'.op = "redirect_print" /\ ~mgr[last'.m].print_redirected)
            => /\ print' = last'.m
               /\ mgr'[last'.m].print_redirected
               /\ LET after == [handlers |-> handlers', nextId |-> nextId',
                                 print |-> print', mgr |-> mgr']
                  IN  RestorePrint(after, last'.m) =
                        [after EXCEPT !.mgr[last'.m].print_redirected = FALSE,
                                      !.print = mgr[last'.m].original_print]
        /\ \A m \in Mgrs : mgr[m].built => mgr'[m].original_print = mgr[m].original_print
      ]_vars

\* restore_print ran on a redirected manager constructed while another
\* manager's redirection was installed.
C8_Witness ==
    /\ last.op = "restore_print"
    /\ last.pre = "redirected"
    /\ print = mgr[last.m].original_print
    /\ print # "builtin"

----------------------------------------------------------------------------
(* app_logger.py: the process-wide logger, called from several threads. *)

\* The arguments get_app_logger passes: no filter, no extra sinks, no print redirection.
AppConfig ==
    [ filter_func |-> None, enable_print_redirect |-> FALSE, extra_handlers |-> <<>> ]

ImportWorld ==
    [ handlers |-> DefaultHandlers, nextId |-> 1, print |-> "builtin",
      mgr |-> [m \in Mgrs |-> Unbuilt] ]

\* The manager object the next LoggerManager(...) call creates.
FreshMgr == MgrOrder[Cardinality({m \in Mgrs : mgr[m].built}) + 1]
HasFreshMgr == \E m \in Mgrs : ~mgr[m].built

\* The module has been imported: its last line, logger = get_app_logger(), ran
\* under the import lock and built the first manager.
AppInit ==
    /\ handlers = Construct(ImportWorld, MgrOrder[1], AppConfig).handlers
    /\ nextId = Construct(ImportWorld, MgrOrder[1], AppConfig).nextId
    /\ print = Construct(ImportWorld, MgrOrder[1], AppConfig).print
    /\ mgr = Construct(ImportWorld, MgrOrder[1], AppConfig).mgr
    /\ last = NoCall
    /\ log_manager = MgrOrder[1]
    /\ app_logger = "logger"
    /\ a_pc = [t \in Threads |-> "idle"]
    /\ a_new = [t \in Threads |-> None]
    /\ a_ret = [t \in Threads |-> None]
    /\ a_dead = {}
    /\ initRuns = 1
    /\ SchedIdle

AppGoto(t, pc) == a_pc' = [a_pc EXCEPT ![t] = pc]

\* A thread calls get_app_logger().
AppCall(t) ==
    /\ a_pc[t] = "idle"
    /\ AppGoto(t, "check")
    /\ UNCHANGED <<lmVars, last, log_manager, app_logger, a_new, a_ret, a_dead, initRuns, schedVars>>

\* if _logger is None:
AppCheck(t) ==
    /\ a_pc[t] = "check"
    /\ IF app_logger = None
       THEN /\ HasFreshMgr
            /\ AppGoto(t, "new")
            /\ initRuns' = initRuns + 1
       ELSE /\ AppGoto(t, "return")
            /\ UNCHANGED initRuns
    /\ UNCHANGED <<lmVars, last, log_manager, app_logger, a_new, a_ret, a_dead, schedVars>>

\* LoggerManager(...): __init__ up to the call of _setup_logger.
AppNew(t) ==
    /\ a_pc[t] = "new"
    /\ HasFreshMgr
    /\ mgr' = [mgr EXCEPT ![FreshMgr] =
                 [ built |-> TRUE, handler_ids |-> <<>>, filter_func |-> AppConfig.filter_func,
                   extra_handlers |-> AppConfig.extra_handlers,
                   enable_print_redirect |-> AppConfig.enable_print_redirect,
                   print_redirected |-> FALSE, original_print |-> print ]]
    /\ a_new' = [a_new EXCEPT ![t] = FreshMgr]
    /\ AppGoto(t, "remove")
    /\ UNCHANGED <<handlers, nextId, print, last, log_manager, app_logger, a_ret, a_dead, initRuns, schedVars>>

\* _setup_logger: logger.remove()
AppRemove(t) ==
    /\ a_pc[t] = "remove"
    /\ Install(LoggerRemoveAll(World))
    /\ AppGoto(t, "console")
    /\ UNCHANGED <<last, log_manager, app_logger, a_new, a_ret, a_dead, initRuns, schedVars>>

\* _setup_logger: the console sink
AppConsole(t) ==
    /\ a_pc[t] = "console"
    /\ Install(SetupConsole(World, a_new[t]))
    /\ AppGoto(t, "file")
    /\ UNCHANGED <<last, log_manager, app_logger, a_new, a_ret, a_dead, initRuns, schedVars>>

\* _setup_logger: the file sink; no extra sinks, no print redirection
AppFile(t) ==
    /\ a_pc[t] = "file"
    /\ Install(SetupFile(World, a_new[t]))
    /\ AppGoto(t, "assign")
    /\ UNCHANGED <<last, log_manager, app_logger, a_new, a_ret, a_dead, initRuns, schedVars>>

\* _log_manager = LoggerManager(...)
AppAssignManager(t) ==
    /\ a_pc[t] = "assign"
    /\ log_manager' = a_new[t]
    /\ a_new' = [a_new EXCEPT ![t] = None]
    /\ AppGoto(t, "logger")
    /\ UNCHANGED <<lmVars, last, app_logger, a_ret, a_dead, initRuns, schedVars>>

\* _logger = _log_manager.get_logger(), then the startup record: both read the
\* global _log_manager, which cleanup_logger may have set to None.
AppAssignLogger(t) ==
    /\ a_pc[t] = "logger"
    /\ IF log_manager = None
       THEN /\ a_ret' = [a_ret EXCEPT ![t] = "AttributeError"]
            /\ AppGoto(t, "idle")
            /\ UNCHANGED app_logger
       ELSE /\ app_logger' = "logger"
            /\ AppGoto(t, "return")
            /\ UNCHANGED a_ret
    /\ UNCHANGED <<lmVars, last, log_manager, a_new, a_dead, initRuns, schedVars>>

\* return _logger
AppReturn(t) ==
    /\ a_pc[t] = "return"
    /\ a_ret' = [a_ret EXCEPT ![t] = app_logger]
    /\ AppGoto(t, "idle")
    /\ UNCHANGED <<lmVars, last, log_manager, app_logger, a_new, a_dead, initRuns, schedVars>>

\* cleanup_logger()
AppCleanupLogger ==
    /\ log_manager # None
    /\ Install(Cleanup(World, log_manager))
    /\ log_manager' = None
    /\ app_logger' = None
    /\ initRuns' = 0
    /\ UNCHANGED <<last, a_pc, a_new, a_ret, a_dead, schedVars>>

\* __del__ of a manager nothing refers to any more: cleanup(), at whatever
\* moment the runtime collects the object.
AppDel(m) ==
    /\ mgr[m].built
    /\ m \notin a_dead
    /\ m # log_manager
    /\ \A t \in Threads : a_new[t] # m
    /\ Install(Cleanup(World, m))
    /\ a_dead' = a_dead \cup {m}
    /\ UNCHANGED <<last, log_manager, app_logger, a_pc, a_new, a_ret, initRuns, schedVars>>

AppNext ==
    \/ \E t \in Threads : AppCall(t)
    \/ \E t \in Threads : AppCheck(t)
    \/ \E t \in Threads : AppNew(t)
    \/ \E t \in Threads : AppRemove(t)
    \/ \E t \in Threads : AppConsole(t)
    \/ \E t \in Threads : AppFile(t)
    \/ \E t \in Threads : AppAssignManager(t)
    \/ \E t \in Threads : AppAssignLogger(t)
    \/ \E t \in Threads : AppReturn(t)
    \/ AppCleanupLogger
    \/ \E m \in Mgrs : AppDel(m)

SpecApp == AppInit /\ [][AppNext]_vars

\* C1: only one initialization sequence runs while _logger is None, and one
\* console sink and one file sink are registered in total.
C1_OneInitialization ==
    /\ initRuns <= 1
    /\ Cardinality({h \in handlers : h.kind = "console"}) <= 1
    /\ Cardinality({h \in handlers : h.kind = "file"}) <= 1

----------------------------------------------------------------------------
(* scheduler.py: SchedulerManager over the scheduling backend. *)

JobNames == {"job_a", "job_b"}
Events   == <<"EVENT_JOB_EXECUTED", "EVENT_JOB_ERROR", "EVENT_JOB_MISSED">>

\* job_defaults: 'max_instances': 1
max_instances == 1

\* add_job(func, trigger, **kwargs): the max_instances a caller may pass in
\* kwargs; 0 stands for a call without it.
InstanceArgs == {0, 2}

\* BackgroundScheduler(...): stopped, no listeners, no jobs, nothing executing.
\* executing holds, per job with runs in progress, the number of those runs.
NewScheduler ==
    [ running |-> FALSE, listeners |-> <<>>, jobs |-> <<>>, stopped |-> "never",
      executing |-> {} ]

\* self.scheduler = BackgroundScheduler(...)
CreateScheduler(s) ==
    [s EXCEPT !.scheds = Append(@, NewScheduler), !.scheduler = Len(s.scheds) + 1]

\* self.scheduler.add_listener(listener, event)
AddListener(s, ev) == [s EXCEPT !.scheds[s.scheduler].listeners = Append(@, ev)]

AddListeners(s) == AddListener(AddListener(AddListener(s, Events[1]), Events[2]), Events[3])

\* self.scheduler.start() raises SchedulerAlreadyRunningError on a running scheduler.
StartRaises(s) == s.scheds[s.scheduler].running

\* self.scheduler.start()
Start(s) == [s EXCEPT !.scheds[s.scheduler].running = TRUE]

\* self._initialized = True
MarkInitialized(s) == [s EXCEPT !.initialized = TRUE]

\* atexit.register(self.shutdown)
RegisterExit(s) == [s EXCEPT !.exitHooks = @ + 1]

Result(s, ret, out) == [sm |-> s, ret |-> ret, out |-> out]

\* The outcome of init_scheduler: the manager, the value returned, "ok" or
\* "raise", the exception raised and what was logged.
InitResult(s, ret, out, exc, log) ==
    [sm |-> s, ret |-> ret, out |-> out, exc |-> exc, log |-> log]

\* The exception a failing backend call raises.
ErrorOf(fail) == <<"error", fail>>

\* init_scheduler with its guard on self._initialized removed.
InitSchedulerUnguarded(s, fail) ==
    LET s1 == AddListeners(CreateScheduler(s))
    IN  InitResult(RegisterExit(MarkInitialized(Start(s1))), s1.scheduler, "ok", None,
                   <<"success">>)

\* init_scheduler with self._initialized = True set before self.scheduler.start().
InitSchedulerMarksEarly(s, fail) ==
    IF s.initialized THEN InitResult(s, s.scheduler, "ok", None, <<"warning">>)
    ELSE IF fail = "create" THEN InitResult(s, 0, "raise", ErrorOf(fail), <<"exception">>)
    ELSE IF fail = "configure"
    THEN InitResult(CreateScheduler(s), 0, "raise", ErrorOf(fail), <<"exception">>)
    ELSE LET s1 == MarkInitialized(AddListeners(CreateScheduler(s)))
         IN  IF fail = "start" \/ StartRaises(s1)
             THEN InitResult(s1, 0, "raise", ErrorOf("start"), <<"exception">>)
             ELSE InitResult(RegisterExit(Start(s1)), s1.scheduler, "ok", None, <<"success">>)

\* init_scheduler; fail names the backend call that raises: "create" (the
\* constructor), "configure" (add_listener), "start", or "none".
InitScheduler(s, fail) ==
    IF s.initialized THEN InitResult(s, s.scheduler, "ok", None, <<"warning">>)
    ELSE IF fail = "create" THEN InitResult(s, 0, "raise", ErrorOf(fail), <<"exception">>)
    ELSE IF fail = "configure"
    THEN InitResult(CreateScheduler(s), 0, "raise", ErrorOf(fail), <<"exception">>)
    ELSE LET s1 == AddListeners(CreateScheduler(s))
         IN  IF fail = "start" \/ StartRaises(s1)
             THEN InitResult(s1, 0, "raise", ErrorOf("start"), <<"exception">>)
             ELSE InitResult(RegisterExit(MarkInitialized(Start(s1))), s1.scheduler, "ok",
                             None, <<"success">>)

\* get_scheduler
GetScheduler(s, fail) ==
    IF ~s.initialized
    THEN LET r == InitScheduler(s, fail)
         IN  IF r.out = "raise" THEN r
             ELSE InitResult(r.sm, r.sm.scheduler, "ok", None, r.log)
    ELSE InitResult(s, s.scheduler, "ok", None, <<>>)

\* add_job: self.scheduler.add_job(...) fails on None with AttributeError;
\* kwargs go to the backend as given, where they override the job defaults.
AddJob(s, name, mi) ==
    IF s.scheduler = 0 THEN Result(s, 0, "AttributeError")
    ELSE Result([s EXCEPT !.scheds[s.scheduler].jobs =
                              Append(@, [id |-> s.nextJob, name |-> name,
                                         max_instances |-> IF mi = 0 THEN max_instances ELSE mi]),
                          !.nextJob = @ + 1],
                s.nextJob, "ok")

\* shutdown with the test of self.scheduler.running forgotten.
ShutdownIgnoresRunning(s, wait) ==
    IF s.scheduler # 0
    THEN [s EXCEPT !.scheds[s.scheduler].running = FALSE,
                   !.scheds[s.scheduler].jobs = <<>>,
                   !.scheds[s.scheduler].stopped = IF wait THEN "wait" ELSE "nowait",
                   !.initialized = FALSE]
    ELSE s

\* if self.scheduler and self.scheduler.running
ShutdownGuard(s) == s.scheduler # 0 /\ s.scheds[s.scheduler].running

\* The backend's shutdown(wait) as it is entered: the scheduler is stopped.
StopScheduler(s, wait) ==
    [s EXCEPT !.scheds[s.scheduler].running = FALSE,
              !.scheds[s.scheduler].stopped = IF wait THEN "wait" ELSE "nowait"]

\* The backend's shutdown as it ends: the job store drops the jobs.
DropJobs(s) == [s EXCEPT !.scheds[s.scheduler].jobs = <<>>]

\* shutdown with a constant in place of the caller's flag:
\* self.scheduler.shutdown(wait=False).
ShutdownBeginNoWait(s, wait) ==
    IF ShutdownGuard(s) THEN StopScheduler(s, FALSE) ELSE s

\* shutdown up to the call self.scheduler.shutdown(wait=wait).
ShutdownBegin(s, wait) ==
    IF ShutdownGuard(s) THEN StopScheduler(s, wait) ELSE s

\* The return of shutdown with the reset of self._initialized forgotten.
ShutdownEndKeepsFlag(s) == DropJobs(s)

\* shutdown from the return of the backend's shutdown: self._initialized = False
ShutdownEnd(s) == [DropJobs(s) EXCEPT !.initialized = FALSE]

\* shutdown(wait), start to end.
Shutdown(s, wait) ==
    IF ShutdownGuard(s) THEN ShutdownEnd(ShutdownBegin(s, wait)) ELSE s

\* The list get_jobs_status builds from self.scheduler.get_jobs().
JobList(sch) == [k \in 1..Len(sch.jobs) |-> [id |-> sch.jobs[k].id, name |-> sch.jobs[k].name]]

\* get_jobs_status
GetJobsStatus(s) ==
    IF s.scheduler = 0
    THEN [status |-> "not_initialized", jobs |-> <<>>]
    ELSE [status |-> IF s.scheds[s.scheduler].running THEN "running" ELSE "stopped",
          jobs_count |-> Len(JobList(s.scheds[s.scheduler])),
          jobs |-> JobList(s.scheds[s.scheduler])]

\* What the scheduled callable does when invoked: returns a value, raises an
\* Exception, or raises a BaseException outside Exception (SystemExit, ...).
FuncOutcomes ==
    [kind : {"return"}, val : {"r1", "r2"}] \cup
    [kind : {"Exception", "BaseException"}, val : {"e1", "e2"}]

NoOutcome == [kind |-> "none", val |-> "none"]

\* logged_job_wrapper with the raise after the logging forgotten.
LoggedJobWrapperSwallows(func) ==
    [ log |-> <<"start">> \o (IF func.kind = "return" THEN <<"success">>
                              ELSE IF func.kind = "Exception" THEN <<"exception">> ELSE <<>>),
      res |-> IF func.kind = "return" THEN func
              ELSE IF func.kind = "Exception" THEN [kind |-> "return", val |-> "None"]
              ELSE func ]

\* logged_job_wrapper: except Exception catches the Exception class only.
LoggedJobWrapper(func) ==
    IF func.kind = "return"
    THEN [log |-> <<"start", "success">>, res |-> func]
    ELSE IF func.kind = "Exception"
    THEN [log |-> <<"start", "exception">>, res |-> func]
    ELSE [log |-> <<"start">>, res |-> func]

SCall(op, f, id, out, pre, func, run) ==
    [op |-> op, m |-> "scheduler_manager", f |-> f, id |-> id, out |-> out, pre |-> pre,
     func |-> func, res |-> run.res, log |-> run.log]

NoRun == [log |-> <<>>, res |-> NoOutcome]

Fails == {"none", "create", "configure", "start"}

\* The state of the manager as a call finds it.
StateTag == IF sm.initialized THEN "initialized"
            ELSE IF sm.scheduler = 0 THEN "fresh" ELSE "uninitialized"

SchedInit ==
    /\ handlers = DefaultHandlers
    /\ nextId = 1
    /\ print = "builtin"
    /\ mgr = [m \in Mgrs |-> Unbuilt]
    /\ last = NoCall
    /\ AppIdle

CanCreate == Len(sm.scheds) < MaxScheds

SInitScheduler(fail) ==
    /\ sm.initialized \/ CanCreate
    /\ sm' = InitScheduler(sm, fail).sm
    /\ last' = SCall("init_scheduler", fail, InitScheduler(sm, fail).ret,
                     InitScheduler(sm, fail).out, StateTag, NoOutcome,
                     [log |-> InitScheduler(sm, fail).log, res |-> InitScheduler(sm, fail).exc])
    /\ UNCHANGED <<lmVars, appVars, s_pc, s_via, s_ret>>

SGetScheduler(fail) ==
    /\ sm.initialized \/ CanCreate
    /\ sm' = GetScheduler(sm, fail).sm
    /\ last' = SCall("get_scheduler", fail, GetScheduler(sm, fail).ret,
                     GetScheduler(sm, fail).out, StateTag, NoOutcome,
                     [log |-> GetScheduler(sm, fail).log, res |-> GetScheduler(sm, fail).exc])
    /\ UNCHANGED <<lmVars, appVars, s_pc, s_via, s_ret>>

SAddJob(name, mi) ==
    /\ sm.nextJob <= MaxJobs
    /\ sm' = AddJob(sm, name, mi).sm
    /\ last' = SCall("add_job", name, AddJob(sm, name, mi).ret, AddJob(sm, name, mi).out,
                     StateTag, NoOutcome, NoRun)
    /\ UNCHANGED <<lmVars, appVars, s_pc, s_via, s_ret>>

SGetJobsStatus ==
    /\ UNCHANGED sm
    /\ last' = SCall("get_jobs_status", GetJobsStatus(sm).status, Len(GetJobsStatus(sm).jobs),
                     "ok", StateTag, NoOutcome, [log |-> <<>>, res |-> GetJobsStatus(sm)])
    /\ UNCHANGED <<lmVars, appVars, s_pc, s_via, s_ret>>

SShutdown(wait) ==
    /\ sm' = Shutdown(sm, wait)
    /\ last' = SCall("shutdown", IF wait THEN "wait" ELSE "nowait", 0, "ok",
                     StateTag, NoOutcome, NoRun)
    /\ UNCHANGED <<lmVars, appVars, s_pc, s_via, s_ret>>

\* The backend invokes the wrapped callable of a job of the running scheduler.
SRunJob(j, func) ==
    /\ sm.scheduler # 0
    /\ sm.scheds[sm.scheduler].running
    /\ j \in 1..Len(sm.scheds[sm.scheduler].jobs)
    /\ UNCHANGED sm
    /\ last' = SCall("run_job", sm.scheds[sm.scheduler].jobs[j].name,
                     sm.scheds[sm.scheduler].jobs[j].id,
                     IF LoggedJobWrapper(func).res.kind = "return" THEN "ok" ELSE "raise",
                     StateTag, func, LoggedJobWrapper(func))
    /\ UNCHANGED <<lmVars, appVars, s_pc, s_via, s_ret>>

SchedNext ==
    \/ \E fail \in Fails : SInitScheduler(fail)
    \/ \E fail \in Fails : SGetScheduler(fail)
    \/ \E name \in JobNames : SAddJob(name, 0)
    \/ SGetJobsStatus
    \/ \E wait \in BOOLEAN : SShutdown(wait)
    \/ \E j \in 1..MaxJobs, func \in FuncOutcomes : SRunJob(j, func)

SpecSched == SchedInit /\ [][SchedNext]_vars

----------------------------------------------------------------------------
(* Properties of the SchedulerManager calls. *)

\* C9 as stated: every invocation of a wrapped job logs start, then runs the
\* callable, then either logs success and returns the callable's result or
\* logs the exception and re-raises that same exception.
C9_WrapperLogsAndReraises ==
    last.op = "run_job" =>
        \/ /\ last.func.kind = "return"
           /\ last.log = <<"start", "success">>
           /\ last.res = last.func
        \/ /\ last.func.kind # "return"
           /\ last.log = <<"start", "exception">>
           /\ last.res = last.func

\* C9 as amended: the result of a normal return and every raised exception
\* pass through the wrapper unchanged (nothing is swallowed); a return is
\* logged as start, success; a raised Exception as start, exception; a raised
\* BaseException that is no Exception is not logged after start.
C9_WrapperPreservesOutcome ==
    last.op = "run_job" =>
        /\ last.res = last.func
        /\ last.out = (IF last.func.kind = "return" THEN "ok" ELSE "raise")
        /\ last.func.kind = "return"        => last.log = <<"start", "success">>
        /\ last.func.kind = "Exception"     => last.log = <<"start", "exception">>
        /\ last.func.kind = "BaseException" => last.log = <<"start">>

\* A job's callable raised an Exception, which was logged and re-raised.
C9_Witness ==
    /\ last.op = "run_job"
    /\ last.func.kind = "Exception"
    /\ last.out = "raise"
    /\ last.log = <<"start", "exception">>

\* C10: init_scheduler() on an initialized manager returns the existing
\* scheduler and changes nothing: no scheduler is created, the three listeners
\* stay as they are, no exit hook is added, the jobs are unchanged.
C10_InitIsIdempotent ==
    [][ (last'.op = "init_scheduler" /\ sm.initialized) =>
          /\ sm' = sm
          /\ last'.out = "ok"
          /\ last'.id = sm.scheduler
          /\ sm.scheduler # 0
          /\ sm.scheds[sm.scheduler].running
          /\ sm.scheds[sm.scheduler].listeners = Events ]_vars

\* init_scheduler() was called on an initialized manager that holds a job.
C10_Witness ==
    /\ last.op = "init_scheduler"
    /\ last.pre = "initialized"
    /\ sm.initialized
    /\ sm.scheds[sm.scheduler].jobs # <<>>
    /\ sm.exitHooks = 1

\* The manager is Running: initialized, its scheduler started and not stopped.
Running(s) == s.initialized /\ s.scheduler # 0 /\ s.scheds[s.scheduler].running

\* shutdown() has stopped a scheduler of the manager.
WasShutDown(s) == \E i \in 1..Len(s.scheds) : s.scheds[i].stopped # "never"

\* C11: Uninitialized -> Running -> Shutdown with no restart: once shutdown()
\* has stopped the manager's scheduler, no later init_scheduler() or
\* get_scheduler() call brings the manager back to Running.
C11_NoRestartFromShutdown == WasShutDown(sm) => ~Running(sm)

\* C12: shutdown(wait) on a running scheduler passes the wait flag to the
\* backend, which stops, and marks the manager uninitialized, keeping its
\* reference to the scheduler; shutdown() when no scheduler was created or the
\* scheduler is not running changes nothing and reaches no backend, so a
\* repeated shutdown (the exit hook's included) is harmless.
C12_ShutdownDelegatesOrNoOp ==
    [][ last'.op = "shutdown" =>
          IF sm.scheduler # 0 /\ sm.scheds[sm.scheduler].running
          THEN /\ ~sm'.initialized
               /\ sm'.scheduler = sm.scheduler
               /\ ~sm'.scheds[sm.scheduler].running
               /\ sm'.scheds[sm.scheduler].stopped = last'.f
               /\ sm'.exitHooks = sm.exitHooks
               /\ Len(sm'.scheds) = Len(sm.scheds)
               /\ \A i \in 1..Len(sm.scheds) : i # sm.scheduler => sm'.scheds[i] = sm.scheds[i]
          ELSE sm' = sm ]_vars

\* shutdown() with the default wait, as the exit hook calls it, came after a
\* shutdown(wait=False) had stopped the scheduler, and found nothing to do.
C12_Witness ==
    /\ last.op = "shutdown"
    /\ last.f = "wait"
    /\ last.pre = "uninitialized"
    /\ sm.exitHooks > 0
    /\ sm.scheds[sm.scheduler].stopped = "nowait"

\* The manager's scheduler was never started: there is none, or start() has
\* not succeeded on it.
NeverStarted(s) ==
    \/ s.scheduler = 0
    \/ ~s.scheds[s.scheduler].running /\ s.scheds[s.scheduler].stopped = "never"

\* C15: get_jobs_status() returns the not-initialized sentinel (status
\* 'not_initialized', no jobs) whenever the scheduler was never started;
\* otherwise a snapshot whose jobs_count is the number of jobs listed and
\* whose status is 'running' exactly when the backend is running, else
\* 'stopped'.
C15_JobsStatusSnapshot ==
    last.op = "get_jobs_status" =>
        IF NeverStarted(sm)
        THEN last.res = [status |-> "not_initialized", jobs |-> <<>>]
        ELSE /\ last.res.jobs_count = Len(last.res.jobs)
             /\ last.res.status = (IF sm.scheds[sm.scheduler].running THEN "running" ELSE "stopped")

\* C16: when init_scheduler fails (the backend raises while the scheduler is
\* created, configured or started) the failure is logged and the same
\* exception is raised again, the manager stays uninitialized and registers
\* no exit hook; and init_scheduler on an uninitialized manager, a failed
\* attempt before it or not, is a full initialization: a new scheduler with
\* the three listeners, started, returned, and one more exit hook.
C16_InitFailureLeavesUninitialized ==
    [][ (last'.op = "init_scheduler" /\ ~sm.initialized) =>
          IF last'.f # "none"
          THEN /\ last'.out = "raise"
               /\ last'.res = ErrorOf(last'.f)
               /\ last'.log = <<"exception">>
               /\ ~sm'.initialized
               /\ ~Running(sm')
               /\ sm'.exitHooks = sm.exitHooks
          ELSE /\ last'.out = "ok"
               /\ last'.log = <<"success">>
               /\ sm'.initialized
               /\ sm'.scheduler = Len(sm.scheds) + 1
               /\ last'.id = sm'.scheduler
               /\ sm'.scheds[sm'.scheduler].running
               /\ sm'.scheds[sm'.scheduler].listeners = Events
               /\ sm'.exitHooks = sm.exitHooks + 1 ]_vars

\* init_scheduler() succeeded after an attempt that failed in start() had
\* left a scheduler behind: the manager runs a new one.
C16_Witness ==
    /\ last.op = "init_scheduler"
    /\ last.f = "none"
    /\ last.pre = "uninitialized"
    /\ sm.initialized
    /\ sm.scheduler = 2
    /\ sm.scheds[1].stopped = "never"
    /\ ~sm.scheds[1].running
    /\ sm.scheds[1].listeners = Events

----------------------------------------------------------------------------
(* Job runs that take time: the backend's executor starts a run when a job's *)
(* trigger fires and the run ends later, while shutdown(wait=True) blocks    *)
(* its caller inside the backend until the executor has no run in progress.  *)

\* The runs of job id in progress on a scheduler.
Instances(sch, id) ==
    IF \E e \in sch.executing : e.job.id = id
    THEN (CHOOSE e \in sch.executing : e.job.id = id).n
    ELSE 0

\* The executor's count of a job's runs, set to n.
SetInstances(sch, job, n) ==
    [sch EXCEPT !.executing = {e \in @ : e.job.id # job.id} \cup
                              (IF n = 0 THEN {} ELSE {[job |-> job, n |-> n]})]

\* The trigger of the j-th job fires: the executor starts a run unless the
\* job already has max_instances runs in progress, and then the run is skipped.
Submit(s, j) ==
    LET sch == s.scheds[s.scheduler]
        job == sch.jobs[j]
    IN  IF Instances(sch, job.id) >= job.max_instances
        THEN Result(s, job.id, "skipped")
        ELSE Result([s EXCEPT !.scheds[s.scheduler] =
                                  SetInstances(sch, job, Instances(sch, job.id) + 1)],
                    job.id, "submitted")

\* A run of job e.job on scheduler i ends.
Complete(s, i, e) ==
    [s EXCEPT !.scheds[i] = SetInstances(@, e.job, e.n - 1)]

\* The backend's shutdown(wait) holds its caller while runs are in progress
\* and it was told to wait.
BackendWaits(s) ==
    /\ s.scheds[s.scheduler].stopped = "wait"
    /\ s.scheds[s.scheduler].executing # {}

\* What a shutdown call finds.
ShutdownTag(s) ==
    IF ~ShutdownGuard(s) THEN "not_running"
    ELSE IF s.scheds[s.scheduler].executing # {} THEN "in_flight" ELSE "running"

JFrame == UNCHANGED <<lmVars, appVars, s_via, s_ret>>

JFire(j) ==
    /\ ShutdownGuard(sm)
    /\ j \in 1..Len(sm.scheds[sm.scheduler].jobs)
    /\ sm' = Submit(sm, j).sm
    /\ last' = SCall("fire", sm.scheds[sm.scheduler].jobs[j].name, Submit(sm, j).ret,
                     Submit(sm, j).out, StateTag, NoOutcome, NoRun)
    /\ UNCHANGED s_pc
    /\ JFrame

JFinish(i, func) ==
    /\ i \in 1..Len(sm.scheds)
    /\ \E e \in sm.scheds[i].executing :
          /\ sm' = Complete(sm, i, e)
          /\ last' = SCall("run_job", e.job.name, e.job.id,
                           IF LoggedJobWrapper(func).res.kind = "return" THEN "ok" ELSE "raise",
                           StateTag, func, LoggedJobWrapper(func))
    /\ UNCHANGED s_pc
    /\ JFrame

\* A thread calls shutdown(wait): it returns in this step, or stays in the
\* backend's shutdown.
JShutdownCall(t, wait) ==
    /\ s_pc[t] = "idle"
    /\ IF ShutdownGuard(sm) /\ BackendWaits(ShutdownBegin(sm, wait))
       THEN /\ sm' = ShutdownBegin(sm, wait)
            /\ s_pc' = [s_pc EXCEPT ![t] = "sd_wait"]
            /\ last' = SCall("shutdown_enter", IF wait THEN "wait" ELSE "nowait", sm.scheduler,
                             "blocked", ShutdownTag(sm), NoOutcome, NoRun)
       ELSE /\ sm' = IF ShutdownGuard(sm) THEN ShutdownEnd(ShutdownBegin(sm, wait)) ELSE sm
            /\ UNCHANGED s_pc
            /\ last' = SCall("shutdown", IF wait THEN "wait" ELSE "nowait", sm.scheduler,
                             "ok", ShutdownTag(sm), NoOutcome, NoRun)
    /\ JFrame

\* The executor has no run left: the backend's shutdown returns to shutdown.
JShutdownReturn(t) ==
    /\ s_pc[t] = "sd_wait"
    /\ ~BackendWaits(sm)
    /\ sm' = ShutdownEnd(sm)
    /\ s_pc' = [s_pc EXCEPT ![t] = "idle"]
    /\ last' = SCall("shutdown", "wait", sm.scheduler, "ok", "in_flight", NoOutcome, NoRun)
    /\ JFrame

JobsNext ==
    \/ SInitScheduler("none")
    \/ \E mi \in InstanceArgs : SAddJob("job_a", mi)
    \/ \E j \in 1..MaxJobs : JFire(j)
    \/ \E i \in 1..MaxScheds, func \in FuncOutcomes : JFinish(i, func)
    \/ \E t \in Threads, wait \in BOOLEAN : JShutdownCall(t, wait)
    \/ \E t \in Threads : JShutdownReturn(t)

SpecJobs == SchedInit /\ [][JobsNext]_vars

\* The runs in progress on each scheduler of the manager.
Executing(s) == [i \in 1..Len(s.scheds) |-> s.scheds[i].executing]

\* C13 as stated: shutdown(wait=False) returns before the runs in flight end,
\* leaving them to end on their own; shutdown(wait=True) returns only after
\* every run in flight has ended.
C13_ShutdownWaitsForJobs ==
    [][ last'.op = "shutdown" =>
          /\ last'.f = "nowait" => (s_pc' = s_pc /\ Executing(sm') = Executing(sm))
          /\ last'.f = "wait"   => \A i \in 1..Len(sm'.scheds) : sm'.scheds[i].executing = {} ]_vars

\* C13 as amended: shutdown(wait=False) returns in the step it is called,
\* leaving every run in flight as it is; shutdown(wait=True) that finds its
\* scheduler running returns only after every run in flight on that scheduler
\* has ended; a shutdown that finds the scheduler not running returns at once
\* and waits for nothing.
C13_ShutdownWaitsForOwnJobs ==
    [][ last'.op = "shutdown" =>
          /\ last'.f = "nowait" => (s_pc' = s_pc /\ Executing(sm') = Executing(sm))
          /\ (last'.f = "wait" /\ last'.pre # "not_running") =>
                 /\ sm'.scheds[last'.id].executing = {}
                 /\ sm'.scheds[last'.id].stopped = "wait"
          /\ last'.pre = "not_running" => (s_pc' = s_pc /\ sm' = sm) ]_vars

\* shutdown(wait=True) found runs in flight on its scheduler and has returned
\* after they ended, while a run that an earlier shutdown(wait=False) left in
\* flight on another scheduler of the manager goes on.
C13_Witness ==
    /\ last.op = "shutdown"
    /\ last.f = "wait"
    /\ last.pre = "in_flight"
    /\ sm.scheds[last.id].executing = {}
    /\ \E i \in 1..Len(sm.scheds) :
          sm.scheds[i].stopped = "nowait" /\ sm.scheds[i].executing # {}

\* C14: for every job identifier at most one run of the job is in progress
\* at any time; a trigger that fires during a run is skipped.
C14_OneRunPerJob ==
    \A i \in 1..Len(sm.scheds) : \A e \in sm.scheds[i].executing : e.n <= 1

----------------------------------------------------------------------------
(* get_scheduler() and init_scheduler() called from several threads: the    *)
(* statements of init_scheduler interleave, each reading self.scheduler     *)
(* and self._initialized anew.                                              *)

SGoto(t, pc) == s_pc' = [s_pc EXCEPT ![t] = pc]
SFrame == UNCHANGED <<lmVars, last, appVars>>

\* A thread calls get_scheduler() (via) or scheduler_manager.init_scheduler().
RaceCall(t, via) ==
    /\ s_pc[t] = "idle"
    /\ s_via' = [s_via EXCEPT ![t] = via]
    /\ SGoto(t, IF via THEN "g_check" ELSE "i_check")
    /\ UNCHANGED <<sm, s_ret>>
    /\ SFrame

\* get_scheduler: if not scheduler_manager._initialized
RaceGetCheck(t) ==
    /\ s_pc[t] = "g_check"
    /\ SGoto(t, IF ~sm.initialized THEN "i_check" ELSE "g_return")
    /\ UNCHANGED <<sm, s_via, s_ret>>
    /\ SFrame

\* init_scheduler: if self._initialized: return self.scheduler
RaceInitCheck(t) ==
    /\ s_pc[t] = "i_check"
    /\ IF sm.initialized
       THEN /\ s_ret' = [s_ret EXCEPT ![t] = sm.scheduler]
            /\ SGoto(t, IF s_via[t] THEN "g_return" ELSE "idle")
       ELSE /\ CanCreate
            /\ SGoto(t, "create")
            /\ UNCHANGED s_ret
    /\ UNCHANGED <<sm, s_via>>
    /\ SFrame

\* self.scheduler = BackgroundScheduler(...)
RaceCreate(t) ==
    /\ s_pc[t] = "create"
    /\ CanCreate
    /\ sm' = CreateScheduler(sm)
    /\ SGoto(t, "listen1")
    /\ UNCHANGED <<s_via, s_ret>>
    /\ SFrame

\* self.scheduler.add_listener(...), three times
RaceListen(t, k) ==
    /\ s_pc[t] = <<"listen1", "listen2", "listen3">>[k]
    /\ sm' = AddListener(sm, Events[k])
    /\ SGoto(t, <<"listen2", "listen3", "start">>[k])
    /\ UNCHANGED <<s_via, s_ret>>
    /\ SFrame

\* self.scheduler.start(); on an exception: logger.exception(...); raise
RaceStart(t) ==
    /\ s_pc[t] = "start"
    /\ IF StartRaises(sm)
       THEN /\ s_ret' = [s_ret EXCEPT ![t] = -1]
            /\ SGoto(t, "idle")
            /\ UNCHANGED sm
       ELSE /\ sm' = Start(sm)
            /\ SGoto(t, "mark")
            /\ UNCHANGED s_ret
    /\ UNCHANGED s_via
    /\ SFrame

\* self._initialized = True
RaceMark(t) ==
    /\ s_pc[t] = "mark"
    /\ sm' = MarkInitialized(sm)
    /\ SGoto(t, "atexit")
    /\ UNCHANGED <<s_via, s_ret>>
    /\ SFrame

\* atexit.register(self.shutdown)
RaceAtexit(t) ==
    /\ s_pc[t] = "atexit"
    /\ sm' = RegisterExit(sm)
    /\ SGoto(t, "i_return")
    /\ UNCHANGED <<s_via, s_ret>>
    /\ SFrame

\* init_scheduler: return self.scheduler
RaceInitReturn(t) ==
    /\ s_pc[t] = "i_return"
    /\ s_ret' = [s_ret EXCEPT ![t] = sm.scheduler]
    /\ SGoto(t, IF s_via[t] THEN "g_return" ELSE "idle")
    /\ UNCHANGED <<sm, s_via>>
    /\ SFrame

\* get_scheduler: return scheduler_manager.scheduler
RaceGetReturn(t) ==
    /\ s_pc[t] = "g_return"
    /\ s_ret' = [s_ret EXCEPT ![t] = sm.scheduler]
    /\ SGoto(t, "idle")
    /\ UNCHANGED <<sm, s_via>>
    /\ SFrame

RaceNext ==
    \/ \E t \in Threads, via \in BOOLEAN : RaceCall(t, via)
    \/ \E t \in Threads : RaceGetCheck(t)
    \/ \E t \in Threads : RaceInitCheck(t)
    \/ \E t \in Threads : RaceCreate(t)
    \/ \E t \in Threads, k \in 1..3 : RaceListen(t, k)
    \/ \E t \in Threads : RaceStart(t)
    \/ \E t \in Threads : RaceMark(t)
    \/ \E t \in Threads : RaceAtexit(t)
    \/ \E t \in Threads : RaceInitReturn(t)
    \/ \E t \in Threads : RaceGetReturn(t)

SpecRace == SchedInit /\ [][RaceNext]_vars

\* C2: with no shutdown in between, at most one BackgroundScheduler is ever
\* started, every caller that returns a scheduler gets the same one, and a
\* running scheduler is the one the manager refers to.
C2_OneSchedulerStarted ==
    /\ Cardinality({i \in 1..Len(sm.scheds) : sm.scheds[i].running}) <= 1
    /\ \A i \in 1..Len(sm.scheds) : sm.scheds[i].running => i = sm.scheduler
    /\ \A t, u \in Threads : (s_ret[t] > 0 /\ s_ret[u] > 0) => s_ret[t] = s_ret[u]

----------------------------------------------------------------------------
(* auth.py: the access check on a request. Text is a sequence of characters, *)
(* so that lower(), upper() and startswith() are computed, not assumed.      *)

MaxCookie == 2      \* characters in a LASTUSER cookie value

Lowers == <<"d", "e", "s", "k", "t", "o", "p", "r", "v", "x", "m">>
Uppers == <<"D", "E", "S", "K", "T", "O", "P", "R", "V", "X", "M">>

\* str.lower() and str.upper(), character by character.
LowerChar(c) == IF \E i \in 1..Len(Uppers) : Uppers[i] = c
                THEN Lowers[CHOOSE i \in 1..Len(Uppers) : Uppers[i] = c] ELSE c
UpperChar(c) == IF \E i \in 1..Len(Lowers) : Lowers[i] = c
                THEN Uppers[CHOOSE i \in 1..Len(Lowers) : Lowers[i] = c] ELSE c
Lower(str) == [i \in 1..Len(str) |-> LowerChar(str[i])]
Upper(str) == [i \in 1..Len(str) |-> UpperChar(str[i])]

\* str.startswith(prefix)
StartsWith(str, prefix) ==
    Len(str) >= Len(prefix) /\ SubSeq(str, 1, Len(prefix)) = prefix

\* An optional value: None, or a value.
NoneVal   == [some |-> FALSE, val |-> <<>>]
Some(v)   == [some |-> TRUE, val |-> v]
\* Python's truth value of an optional text: None and '' are false.
Truthy(o) == o.some /\ o.val # <<>>

CookieChars == {"x", "X", "m"}
\* request.cookies.get('LASTUSER'): None when the cookie is absent.
Cookies == {NoneVal} \cup {Some(v) : v \in SeqsUpTo(CookieChars, MaxCookie)}

\* platform.node()
Hosts == { <<"D", "E", "S", "K", "T", "O", "P", "-", "1">>,
           <<"d", "e", "s", "k", "t", "o", "p">>,
           <<"D", "e", "s", "k", "t", "o", "p", "-", "2">>,
           <<"D", "E", "S", "K">>,
           <<"s", "r", "v", "1">> }
DevPrefix == <<"D", "E", "S", "K", "T", "O", "P">>
Loopback  == {"127.0.0.1", "localhost", "::1"}
DevUser   == <<"d", "e", "v", "_", "u", "s", "e", "r">>

\* What check_user_access reads: the environment, the host and the request.
Requests ==
    [ DATA_SOURCE_MODE : {None, "dummy", "real"},
      REMOTE_ADDR      : Loopback \cup {"10.0.0.5", ""},
      node             : Hosts,
      FLASK_ENV        : {None, "development", "production"},
      FLASK_DEBUG      : {None, "1", "0"},
      LASTUSER         : Cookies ]

\* is_development_environment with the test of REMOTE_ADDR forgotten.
IsDevelopmentEnvironmentAnyAddress(req) ==
    \/ req.DATA_SOURCE_MODE = "dummy"
    \/ StartsWith(Upper(req.node), DevPrefix)
    \/ req.FLASK_ENV = "development" \/ req.FLASK_DEBUG = "1"

\* is_development_environment
IsDevelopmentEnvironment(req) ==
    IF req.DATA_SOURCE_MODE = "dummy" /\ req.REMOTE_ADDR \in Loopback THEN TRUE
    ELSE IF StartsWith(Upper(req.node), DevPrefix) THEN TRUE
    ELSE IF req.FLASK_ENV = "development" \/ req.FLASK_DEBUG = "1" THEN TRUE
    ELSE FALSE

\* is_restricted_user with the .lower() forgotten.
IsRestrictedUserCaseSensitive(user_id) ==
    IF ~Truthy(user_id) THEN FALSE
    ELSE StartsWith(user_id.val, <<"x">>)

\* is_restricted_user
IsRestrictedUser(user_id) ==
    IF ~Truthy(user_id) THEN FALSE
    ELSE StartsWith(Lower(user_id.val), <<"x">>)

\* get_user_from_cookie
GetUserFromCookie(req) == req.LASTUSER

\* check_user_access: (has_access, user_id)
CheckUserAccess(req) ==
    IF IsDevelopmentEnvironment(req)
    THEN [has_access |-> TRUE, user_id |-> Some(DevUser)]
    ELSE IF ~Truthy(GetUserFromCookie(req))
    THEN [has_access |-> FALSE, user_id |-> NoneVal]
    ELSE [has_access |-> ~IsRestrictedUser(GetUserFromCookie(req)),
          user_id |-> GetUserFromCookie(req)]

\* What the wrapped handler does with its arguments: it returns or raises.
HandlerArgs == {<<>>, <<"a1">>, <<"a1", "a2">>}
HandlerOutcomes == [kind : {"return", "raise"}, val : {"v1"}]

\* jsonify({'error': ..., 'message': ...}), 403
Denied == [kind |-> "return",
           val  |-> << [error   |-> "Access denied",
                        message |-> "You do not have permission to access this resource"],
                       403 >>]

\* require_access with the identity handed to the handler: f(user_id, *args).
DecoratedFunctionInjects(req, args, f) ==
    IF ~CheckUserAccess(req).has_access
    THEN [calls |-> <<>>, res |-> Denied]
    ELSE [calls |-> << <<CheckUserAccess(req).user_id.val>> \o args >>, res |-> f]

\* require_access(f)(*args): calls holds the argument lists f was invoked
\* with, res what the call returns or raises.
DecoratedFunction(req, args, f) ==
    IF ~CheckUserAccess(req).has_access
    THEN [calls |-> <<>>, res |-> Denied]
    ELSE [calls |-> <<args>>, res |-> f]

ACall(op, req, args, f, calls, res) ==
    [op |-> op, req |-> req, args |-> args, func |-> f, calls |-> calls, res |-> res]

\* A request arrives.
AuthInit ==
    /\ handlers = DefaultHandlers
    /\ nextId = 1
    /\ print = "builtin"
    /\ mgr = [m \in Mgrs |-> Unbuilt]
    /\ AppIdle
    /\ \E req \in Requests : last = ACall("request", req, <<>>, NoOutcome, <<>>, NoOutcome)

ACheckUserAccess ==
    /\ last.op = "request"
    /\ last' = ACall("check_user_access", last.req, <<>>, NoOutcome, <<>>,
                     CheckUserAccess(last.req))
    /\ UNCHANGED <<lmVars, appVars, schedVars>>

ADecoratedFunction(args, f) ==
    /\ last.op = "request"
    /\ last' = ACall("decorated_function", last.req, args, f,
                     DecoratedFunction(last.req, args, f).calls,
                     DecoratedFunction(last.req, args, f).res)
    /\ UNCHANGED <<lmVars, appVars, schedVars>>

AuthNext ==
    \/ ACheckUserAccess
    \/ \E args \in HandlerArgs, f \in HandlerOutcomes : ADecoratedFunction(args, f)

SpecAuth == AuthInit /\ [][AuthNext]_vars

----------------------------------------------------------------------------
(* Properties of the access check. *)

\* A bypass condition holds: dummy data-source mode with a loopback source
\* address, or a host name with the development prefix (in either case of
\* letters), or a framework development or debug flag.
BypassCondition(req) ==
    \/ req.DATA_SOURCE_MODE = "dummy" /\ req.REMOTE_ADDR \in {"127.0.0.1", "localhost", "::1"}
    \/ /\ Len(req.node) >= 7
       /\ \A i \in 1..7 : req.node[i] \in { <<"D", "E", "S", "K", "T", "O", "P">>[i],
                                             <<"d", "e", "s", "k", "t", "o", "p">>[i] }
    \/ req.FLASK_ENV = "development"
    \/ req.FLASK_DEBUG = "1"

\* C17 as stated: with no bypass, an absent cookie gives (denied, None); a
\* present cookie whose first character is x or X gives denied; every other
\* present cookie gives (allowed, the cookie's value).
C17_CookieAloneDecides ==
    (last.op = "check_user_access" /\ ~BypassCondition(last.req)) =>
        LET c == last.req.LASTUSER
        IN  IF ~c.some
            THEN last.res = [has_access |-> FALSE, user_id |-> NoneVal]
            ELSE IF c.val # <<>> /\ c.val[1] \in {"x", "X"}
            THEN ~last.res.has_access
            ELSE last.res = [has_access |-> TRUE, user_id |-> c]

\* C17 as amended: with no bypass, an absent or empty cookie gives (denied,
\* None); a cookie whose first character is x or X gives denied; every other
\* cookie gives (allowed, the cookie's value).
C17_CookieDecidesEmptyDenied ==
    (last.op = "check_user_access" /\ ~BypassCondition(last.req)) =>
        LET c == last.req.LASTUSER
        IN  IF ~c.some \/ c.val = <<>>
            THEN last.res = [has_access |-> FALSE, user_id |-> NoneVal]
            ELSE IF c.val[1] \in {"x", "X"}
            THEN ~last.res.has_access
            ELSE last.res = [has_access |-> TRUE, user_id |-> c]

\* With no bypass, a cookie that begins with a capital X was denied.
C17_Witness ==
    /\ last.op = "check_user_access"
    /\ ~BypassCondition(last.req)
    /\ last.req.LASTUSER = Some(<<"X", "m">>)
    /\ ~last.res.has_access

\* C18: when a bypass condition holds check_user_access returns (allowed,
\* 'dev_user') whatever the cookie, so two requests that differ in the cookie
\* only get the same result; dummy mode from an address that is no loopback
\* address, with no other bypass condition, grants no bypass.
C18_BypassIgnoresCookie ==
    last.op = "check_user_access" =>
        /\ BypassCondition(last.req) =>
              /\ last.res = [has_access |-> TRUE, user_id |-> Some(DevUser)]
              /\ \A c \in Cookies :
                    CheckUserAccess([last.req EXCEPT !.LASTUSER = c]) = last.res
        /\ (last.req.DATA_SOURCE_MODE = "dummy" /\ ~BypassCondition(last.req)) =>
              /\ last.res.user_id # Some(DevUser)
              /\ last.res.user_id \in {NoneVal, last.req.LASTUSER}

\* Dummy mode with a loopback address let a request with a restricted
\* cookie in as dev_user.
C18_Witness ==
    /\ last.op = "check_user_access"
    /\ last.req.DATA_SOURCE_MODE = "dummy"
    /\ last.req.REMOTE_ADDR = "::1"
    /\ last.req.node = <<"s", "r", "v", "1">>
    /\ last.req.FLASK_ENV = None /\ last.req.FLASK_DEBUG = None
    /\ last.req.LASTUSER = Some(<<"x">>)
    /\ last.res = [has_access |-> TRUE, user_id |-> Some(DevUser)]

\* The request is denied: no bypass, and the cookie is absent, empty or
\* begins with x or X.
DeniedRequest(req) ==
    /\ ~BypassCondition(req)
    /\ \/ ~req.LASTUSER.some
       \/ req.LASTUSER.val = <<>>
       \/ req.LASTUSER.val[1] \in {"x", "X"}

\* C19: a handler wrapped by require_access is never invoked for a denied
\* request, which gets the fixed error body with status 403; for an allowed
\* request the handler is invoked exactly once, with the original arguments
\* and nothing added, and what it returns is returned.
C19_DeniedNeverReachesHandler ==
    last.op = "decorated_function" =>
        IF DeniedRequest(last.req)
        THEN /\ last.calls = <<>>
             /\ last.res.kind = "return"
             /\ last.res.val[2] = 403
             /\ last.res.val[1].error = "Access denied"
             /\ last.res.val[1].message = "You do not have permission to access this resource"
        ELSE /\ last.calls = <<last.args>>
             /\ last.res = last.func

\* A request with the cookie xm and no bypass was answered 403 without the
\* handler being invoked.
C19_Witness ==
    /\ last.op = "decorated_function"
    /\ DeniedRequest(last.req)
    /\ last.req.LASTUSER = Some(<<"x", "m">>)
    /\ last.args = <<"a1">>
    /\ last.calls = <<>>
    /\ last.res.val[2] = 403

----------------------------------------------------------------------------
(* time_range_bound.py: the range filter built from a start and an end.      *)
(* An instant is a day, a second of the day and a microsecond. A text input  *)
(* is given by its layout and the fields written in it: strptime is the      *)
(* match of the layout against the three formats, tried in order.            *)

MaxDay == 2         \* calendar days 1 .. MaxDay

Days  == 1..MaxDay
Secs  == {0, 32400, 86399}                  \* 00:00:00, 09:00:00, 23:59:59
USecs == {0, 999999}
Datetime(d, sec, us) == [day |-> d, sec |-> sec, usec |-> us]

\* time.min and time.max
TimeMin == [sec |-> 0, usec |-> 0]
TimeMax == [sec |-> 86399, usec |-> 999999]

\* datetime.combine(date, time)
Combine(d, t) == Datetime(d, t.sec, t.usec)

\* The layouts of a text: 'YYYY-MM-DD HH:MM:SS', 'YYYY-MM-DD HH:MM',
\* 'YYYY-MM-DD', a date with a one-digit month or day ('2024-1-5'), text
\* that is no date, and the empty text.
TextInputs ==
    [type : {"str"}, layout : {"ymd_hms"}, day : Days, sec : Secs] \cup
    [type : {"str"}, layout : {"ymd_hm"}, day : Days, sec : {x \in Secs : x % 60 = 0}] \cup
    [type : {"str"}, layout : {"ymd", "ymd_short"}, day : Days, sec : {0}] \cup
    [type : {"str"}, layout : {"bad", "empty"}, day : {1}, sec : {0}]

\* What a caller may pass as start or end: None, a text, a datetime, a
\* date, or an object of another type.
TimeInputs ==
    {[type |-> "None"], [type |-> "other"]} \cup TextInputs \cup
    [type : {"datetime"}, day : Days, sec : Secs, usec : USecs] \cup
    [type : {"date"}, day : Days]

\* len(str(x)) of a text, as far as the code tests it: 10 for 'YYYY-MM-DD'.
TextLen(x) ==
    CASE x.layout = "ymd_hms"   -> 19
      [] x.layout = "ymd_hm"    -> 16
      [] x.layout = "ymd"       -> 10
      [] x.layout = "ymd_short" -> 8
      [] x.layout = "bad"       -> 3
      [] x.layout = "empty"     -> 0

\* The truth value of an input: None and '' are false.
Present(x) == x.type # "None" /\ ~(x.type = "str" /\ x.layout = "empty")

Parsed(dt) == [out |-> "ok", dt |-> dt]
ParseError(e, msg) == [out |-> e, msg |-> msg, dt |-> Datetime(0, 0, 0)]

\* The messages of the three errors the module raises.
UnableToParse == "Unable to parse time string"
UnsupportedType == "Unsupported time input type"
AtLeastOne == "At least one of start or end must be provided"

\* parse_time_input
ParseTimeInput(x) ==
    IF x.type = "datetime" THEN Parsed(Datetime(x.day, x.sec, x.usec))
    ELSE IF x.type = "date" THEN Parsed(Combine(x.day, TimeMin))
    ELSE IF x.type = "str"
    THEN IF x.layout \in {"ymd_hms", "ymd_hm"} THEN Parsed(Datetime(x.day, x.sec, 0))
         ELSE IF x.layout \in {"ymd", "ymd_short"} THEN Parsed(Datetime(x.day, 0, 0))
         ELSE ParseError("ValueError", UnableToParse)
    ELSE ParseError("TypeError", UnsupportedType)

\* get_time_range_bounds that refuses a start after its end.
GetTimeRangeBoundsOrdered(start, end, inclusive) ==
    LET ps == ParseTimeInput(start)
        pe == ParseTimeInput(end)
    IN  IF Present(start) /\ ps.out # "ok" THEN [out |-> ps.out, msg |-> ps.msg]
        ELSE IF Present(end) /\ pe.out # "ok" THEN [out |-> pe.out, msg |-> pe.msg]
        ELSE IF Present(start) /\ Present(end) /\
                (ps.dt.day > pe.dt.day \/ (ps.dt.day = pe.dt.day /\ ps.dt.sec > pe.dt.sec))
        THEN [out |-> "ValueError", msg |-> "start is after end"]
        ELSE [ out      |-> "ok",
               start_dt |-> IF Present(start) THEN Some(ps.dt) ELSE NoneVal,
               end_dt   |-> IF ~Present(end) THEN NoneVal
                            ELSE IF end.type \in {"str", "date"} /\
                                    ((end.type = "str" /\ TextLen(end) = 10) \/ end.type = "date")
                            THEN Some(Combine(pe.dt.day, TimeMax))
                            ELSE Some(pe.dt) ]

\* get_time_range_bounds: (start_dt, end_dt), None for a bound not given.
GetTimeRangeBounds(start, end, inclusive) ==
    LET ps == ParseTimeInput(start)
        pe == ParseTimeInput(end)
    IN  IF Present(start) /\ ps.out # "ok" THEN [out |-> ps.out, msg |-> ps.msg]
        ELSE IF Present(end) /\ pe.out # "ok" THEN [out |-> pe.out, msg |-> pe.msg]
        ELSE [ out      |-> "ok",
               start_dt |-> IF Present(start) THEN Some(ps.dt) ELSE NoneVal,
               end_dt   |-> IF ~Present(end) THEN NoneVal
                            ELSE IF end.type \in {"str", "date"} /\
                                    ((end.type = "str" /\ TextLen(end) = 10) \/ end.type = "date")
                            THEN Some(Combine(pe.dt.day, TimeMax))
                            ELSE Some(pe.dt) ]

\* datetime.isoformat(): the microseconds are written only when not zero.
Isoformat(dt) == IF dt.usec = 0 THEN <<dt.day, dt.sec>> ELSE <<dt.day, dt.sec, dt.usec>>

Inclusives == {"both", "start", "end", "neither", "BOTH"}
Fields == {"timestamp"}

\* build_time_range_query with the two tests of inclusive exchanged.
BuildTimeRangeQuerySwapped(field, start, end, inclusive) ==
    LET b == GetTimeRangeBounds(start, end, inclusive)
    IN  IF b.out # "ok" THEN [out |-> b.out, msg |-> b.msg]
        ELSE LET lower == IF ~b.start_dt.some THEN {}
                          ELSE IF inclusive \in {"both", "end"}
                          THEN {<<"gte", Isoformat(b.start_dt.val)>>}
                          ELSE {<<"gt", Isoformat(b.start_dt.val)>>}
                 upper == IF ~b.end_dt.some THEN {}
                          ELSE IF inclusive \in {"both", "start"}
                          THEN {<<"lte", Isoformat(b.end_dt.val)>>}
                          ELSE {<<"lt", Isoformat(b.end_dt.val)>>}
             IN  IF lower \cup upper = {} THEN [out |-> "ValueError", msg |-> AtLeastOne]
                 ELSE [out |-> "ok", field |-> field, range |-> lower \cup upper]

\* build_time_range_query: Q('range', field = range_params), range_params as
\* the set of its (operator, value) items.
BuildTimeRangeQuery(field, start, end, inclusive) ==
    LET b == GetTimeRangeBounds(start, end, inclusive)
    IN  IF b.out # "ok" THEN [out |-> b.out, msg |-> b.msg]
        ELSE LET lower == IF ~b.start_dt.some THEN {}
                          ELSE IF inclusive \in {"both", "start"}
                          THEN {<<"gte", Isoformat(b.start_dt.val)>>}
                          ELSE {<<"gt", Isoformat(b.start_dt.val)>>}
                 upper == IF ~b.end_dt.some THEN {}
                          ELSE IF inclusive \in {"both", "end"}
                          THEN {<<"lte", Isoformat(b.end_dt.val)>>}
                          ELSE {<<"lt", Isoformat(b.end_dt.val)>>}
             IN  IF lower \cup upper = {} THEN [out |-> "ValueError", msg |-> AtLeastOne]
                 ELSE [out |-> "ok", field |-> field, range |-> lower \cup upper]

\* The arguments search_with_time_range takes besides the two bounds.
Indexes == {"your_index"}
AdditionalFilters == { <<>>, << <<"status", "active">> >> }
DefaultSize == 100

\* search_with_time_range that answers a search without a range filter when
\* the filter cannot be built.
SearchWithTimeRangeSwallows(index, time_field, start, end, additional_filters, size) ==
    LET time_query == BuildTimeRangeQuery(time_field, start, end, "both")
        terms == [i \in 1..Len(additional_filters) |-> <<"term", additional_filters[i]>>]
    IN  [ out     |-> "ok",
          index   |-> index,
          filters |-> IF time_query.out # "ok" THEN terms
                      ELSE << <<"range", time_query>> >> \o terms,
          size    |-> size,
          sort    |-> <<time_field, "desc">> ]

\* search_with_time_range: the Search it returns, as its index, its filters
\* in the order added, its size and its sort; the filter is built with the
\* default inclusivity.
SearchWithTimeRange(index, time_field, start, end, additional_filters, size) ==
    LET time_query == BuildTimeRangeQuery(time_field, start, end, "both")
        terms == [i \in 1..Len(additional_filters) |-> <<"term", additional_filters[i]>>]
    IN  IF time_query.out # "ok" THEN [out |-> time_query.out, msg |-> time_query.msg]
        ELSE [ out     |-> "ok",
               index   |-> index,
               filters |-> << <<"range", time_query>> >> \o terms,
               size    |-> size,
               sort    |-> <<time_field, "desc">> ]

TCall(op, field, start, end, inclusive, res) ==
    [op |-> op, field |-> field, start |-> start, end |-> end, inclusive |-> inclusive,
     res |-> res]

\* A caller holds a field, a start, an end and an inclusivity mode.
RangeInit ==
    /\ handlers = DefaultHandlers
    /\ nextId = 1
    /\ print = "builtin"
    /\ mgr = [m \in Mgrs |-> Unbuilt]
    /\ AppIdle
    /\ \E field \in Fields, start \in TimeInputs, end \in TimeInputs, inclusive \in Inclusives :
          last = TCall("request", field, start, end, inclusive, [out |-> "none"])

TGetTimeRangeBounds ==
    /\ last.op = "request"
    /\ last' = [last EXCEPT !.op = "get_time_range_bounds",
                            !.res = GetTimeRangeBounds(last.start, last.end, last.inclusive)]
    /\ UNCHANGED <<lmVars, appVars, schedVars>>

TBuildTimeRangeQuery ==
    /\ last.op = "request"
    /\ last' = [last EXCEPT !.op = "build_time_range_query",
                            !.res = BuildTimeRangeQuery(last.field, last.start, last.end,
                                                        last.inclusive)]
    /\ UNCHANGED <<lmVars, appVars, schedVars>>

TSearchWithTimeRange(index, additional_filters) ==
    /\ last.op = "request"
    /\ last' = [ op |-> "search_with_time_range", field |-> last.field,
                 start |-> last.start, end |-> last.end, inclusive |-> "both",
                 index |-> index, additional_filters |-> additional_filters,
                 res |-> SearchWithTimeRange(index, last.field, last.start, last.end,
                                             additional_filters, DefaultSize) ]
    /\ UNCHANGED <<lmVars, appVars, schedVars>>

RangeNext ==
    \/ TGetTimeRangeBounds
    \/ TBuildTimeRangeQuery
    \/ \E index \in Indexes, af \in AdditionalFilters : TSearchWithTimeRange(index, af)

SpecRange == RangeInit /\ [][RangeNext]_vars

----------------------------------------------------------------------------
(* Properties of the range filter. *)

\* The input names an instant: a datetime, a date, or a text in one of the
\* accepted layouts.
Valid(x) ==
    \/ x.type \in {"datetime", "date"}
    \/ x.type = "str" /\ x.layout \in {"ymd_hms", "ymd_hm", "ymd", "ymd_short"}

\* The instant an input names: a date, or a text without a time, names the
\* start of its day.
InstantOf(x) ==
    Datetime(x.day,
             IF x.type = "date" THEN 0 ELSE x.sec,
             IF x.type = "datetime" THEN x.usec ELSE 0)

\* The operators of a filter, and the value under an operator.
Operators(q) == {item[1] : item \in q.range}
ValueOf(q, op) == (CHOOSE item \in q.range : item[1] = op)[2]

\* The pair of operators an inclusivity mode selects.
OperatorPair(inclusive) ==
    CASE inclusive = "both"    -> <<"gte", "lte">>
      [] inclusive = "start"   -> <<"gte", "lt">>
      [] inclusive = "end"     -> <<"gt", "lte">>
      [] inclusive = "neither" -> <<"gt", "lt">>

\* C20: for every start A and end B, build_time_range_query selects the
\* operators by the inclusivity mode: 'both' gives gte A and lte B, 'start'
\* gives gte A and lt B, 'end' gives gt A and lte B, 'neither' gives gt A and
\* lt B; the lower value is A's instant and the upper value is B's instant
\* or the last instant of B's day.
C20_InclusiveSelectsOperators ==
    ( /\ last.op = "build_time_range_query"
      /\ Valid(last.start) /\ Valid(last.end)
      /\ last.inclusive \in {"both", "start", "end", "neither"} ) =>
        /\ last.res.out = "ok"
        /\ last.res.field = last.field
        /\ Cardinality(last.res.range) = 2
        /\ Operators(last.res) = {OperatorPair(last.inclusive)[1], OperatorPair(last.inclusive)[2]}
        /\ ValueOf(last.res, OperatorPair(last.inclusive)[1]) = Isoformat(InstantOf(last.start))
        /\ ValueOf(last.res, OperatorPair(last.inclusive)[2]) \in
              { Isoformat(InstantOf(last.end)),
                Isoformat(Datetime(last.end.day, 86399, 999999)) }

\* inclusive = 'start' on a start at 09:00:00 of day 1 and an end at 23:59:59
\* of day 2 gave gte and lt.
C20_Witness ==
    /\ last.op = "build_time_range_query"
    /\ last.inclusive = "start"
    /\ last.start = [type |-> "str", layout |-> "ymd_hms", day |-> 1, sec |-> 32400]
    /\ last.end = [type |-> "datetime", day |-> 2, sec |-> 86399, usec |-> 0]
    /\ last.res.out = "ok"
    /\ last.res.range = { <<"gte", <<1, 32400>> >>, <<"lt", <<2, 86399>> >> }

\* The error a pair of bounds calls for: the parse error of the first bound
\* that is present and names no instant, else the validation error when no
\* bound is present, else none.
ErrorOfInput(x) ==
    IF x.type = "str" THEN <<"ValueError", UnableToParse>> ELSE <<"TypeError", UnsupportedType>>

NoError == <<"ok", "">>

ExpectedError(start, end) ==
    IF Present(start) /\ ~Valid(start) THEN ErrorOfInput(start)
    ELSE IF Present(end) /\ ~Valid(end) THEN ErrorOfInput(end)
    ELSE IF ~Present(start) /\ ~Present(end) THEN <<"ValueError", AtLeastOne>>
    ELSE NoError

Raised(res) == IF res.out = "ok" THEN NoError ELSE <<res.out, res.msg>>

BuildsFilter == last.op \in {"build_time_range_query", "search_with_time_range"}

\* The validation error is raised exactly when neither bound is present
\* (None and the empty text are not present).
MissingBoundsError ==
    BuildsFilter =>
        ( Raised(last.res) = <<"ValueError", AtLeastOne>>
            <=> (~Present(last.start) /\ ~Present(last.end)) )

\* Every error reaches the caller as it was raised, through
\* search_with_time_range too.
ErrorsSurface ==
    BuildsFilter =>
        ( ExpectedError(last.start, last.end) # NoError
            => Raised(last.res) = ExpectedError(last.start, last.end) )

\* C21 as stated: build_time_range_query raises the validation error exactly
\* when neither start nor end is present, returns a filter whenever at least
\* one bound is present and parseable, and every validation or parse error
\* reaches the caller, through search_with_time_range too.
C21_OneParseableBoundSuffices ==
    /\ MissingBoundsError
    /\ BuildsFilter =>
          ( ( (Present(last.start) /\ Valid(last.start)) \/
              (Present(last.end) /\ Valid(last.end)) ) => last.res.out = "ok" )
    /\ ErrorsSurface

\* C21 (amended): build_time_range_query raises the validation error exactly
\* when neither start nor end is present, returns a filter whenever at least
\* one bound is present and every bound that is present is parseable, and
\* every validation or parse error reaches the caller, through
\* search_with_time_range too.
C21_ParseableBoundsGiveFilter ==
    /\ MissingBoundsError
    /\ BuildsFilter =>
          ( ( /\ Present(last.start) \/ Present(last.end)
              /\ Present(last.start) => Valid(last.start)
              /\ Present(last.end) => Valid(last.end) ) => last.res.out = "ok" )
    /\ ErrorsSurface

\* search_with_time_range was called with a start that is no date and an end
\* that is one, and the parse error reached the caller.
C21_Witness ==
    /\ last.op = "search_with_time_range"
    /\ last.start = [type |-> "str", layout |-> "bad", day |-> 1, sec |-> 0]
    /\ last.end = [type |-> "date", day |-> 2]
    /\ last.res = [out |-> "ValueError", msg |-> UnableToParse]

\* An end given without a time of day: a date, or a text the date-only
\* format '%Y-%m-%d' accepts.
DateOnly(x) ==
    \/ x.type = "date"
    \/ x.type = "str" /\ x.layout \in {"ymd", "ymd_short"}

\* The last instant of the day of an input.
EndOfDay(x) == Datetime(x.day, 86399, 999999)

\* The upper bound a valid end calls for, and the bounds a call produced.
UpperBoundFor(end) == IF DateOnly(end) THEN EndOfDay(end) ELSE InstantOf(end)

\* C22: an end supplied as a date-only value (a date, or a text accepted by
\* the date-only format) gives the last instant of its day, 23:59:59.999999,
\* as the upper bound; an end carrying a time of day, and the start, are
\* never widened.
C22_DateOnlyEndCoversDay ==
    /\ ( /\ last.op = "get_time_range_bounds"
         /\ last.res.out = "ok" ) =>
            /\ Present(last.end) => last.res.end_dt = Some(UpperBoundFor(last.end))
            /\ Present(last.start) => last.res.start_dt = Some(InstantOf(last.start))
    /\ ( /\ last.op = "build_time_range_query"
         /\ last.res.out = "ok" ) =>
            /\ Present(last.end) =>
                  \E op \in {"lte", "lt"} :
                      <<op, Isoformat(UpperBoundFor(last.end))>> \in last.res.range
            /\ Present(last.start) =>
                  \E op \in {"gte", "gt"} :
                      <<op, Isoformat(InstantOf(last.start))>> \in last.res.range

\* The inclusivity modes the documentation names.
NamedModes == {"both", "start", "end", "neither"}

\* The start names an instant after the one the end names.
StartAfterEnd(start, end) ==
    /\ Valid(start) /\ Valid(end)
    /\ \/ InstantOf(start).day > InstantOf(end).day
       \/ /\ InstantOf(start).day = InstantOf(end).day
          /\ InstantOf(start).sec > InstantOf(end).sec

\* C30: a filter returned by build_time_range_query has exactly one of gte,
\* gt if a start was supplied and neither otherwise, and exactly one of lte,
\* lt if an end was supplied and neither otherwise (None and the empty text
\* are not supplied); a mode outside both, start, end, neither is not
\* rejected and gives the operators of 'neither'; a start later than the end
\* is not rejected.
C30_OperatorsFollowBounds ==
    last.op = "build_time_range_query" =>
        /\ last.res.out = "ok" =>
              /\ Operators(last.res) \subseteq {"gte", "gt", "lte", "lt"}
              /\ Cardinality(last.res.range) = Cardinality(Operators(last.res))
              /\ Cardinality(Operators(last.res) \cap {"gte", "gt"}) =
                    IF Present(last.start) THEN 1 ELSE 0
              /\ Cardinality(Operators(last.res) \cap {"lte", "lt"}) =
                    IF Present(last.end) THEN 1 ELSE 0
        /\ ( /\ last.inclusive \notin NamedModes
             /\ ExpectedError(last.start, last.end) = NoError ) =>
                /\ last.res.out = "ok"
                /\ Operators(last.res) \subseteq {"gt", "lt"}
        /\ StartAfterEnd(last.start, last.end) => last.res.out = "ok"

\* The mode 'BOTH' with a start on day 2 and an end at 09:00 of day 1 gave a
\* filter with gt and lt.
C30_Witness ==
    /\ last.op = "build_time_range_query"
    /\ last.inclusive = "BOTH"
    /\ last.start = [type |-> "date", day |-> 2]
    /\ last.end = [type |-> "str", layout |-> "ymd_hm", day |-> 1, sec |-> 32400]
    /\ last.res.out = "ok"
    /\ last.res.range = { <<"gt", <<2, 0>> >>, <<"lt", <<1, 32400>> >> }

----------------------------------------------------------------------------
(* datetime_converter.py: parse_date_string and parse_relative_date.         *)
(* A datetime is its proleptic Gregorian day number and its microsecond.     *)
(* A text is given by what the code tests of it: whether it is surrounded by *)
(* blanks, whether it is written in upper case, and its body, which is a     *)
(* phrase of the table, '<N> <unit> ago', 'in <N> <unit>', the empty text,   *)
(* or free text, for which the two answers of dateutil's parser are given.   *)

\* The years a datetime can hold (datetime.MINYEAR .. datetime.MAXYEAR) and
\* the days a timedelta can hold.
YearRange == 1..9999
TimedeltaDays == 0..999999999

Units == {"days", "weeks", "months", "years"}
Phrases == { "today", "now", "yesterday", "tomorrow", "last week", "next week",
             "last month", "next month", "last year", "next year" }
Counts == {0, 1, 3, 9999, 150000000}

\* What dateutil's parser.parse answers for a free text: a datetime, or one
\* of the errors it raises.
ParserAnswers == {"datetime", "ParserError", "ValueError", "OverflowError"}

Bodies ==
    [kind : {"phrase"}, phrase : Phrases] \cup
    [kind : {"ago", "in"}, n : Counts, unit : Units] \cup
    [kind : {"free"}, first : ParserAnswers, second : ParserAnswers] \cup
    {[kind |-> "empty"]}

DateStrings ==
    {[type |-> "None"], [type |-> "other"]} \cup
    [type : {"str"}, pad : BOOLEAN, upper : BOOLEAN, body : Bodies]

\* datetime.now(): an ordinary day and the last day of February of a leap
\* year, with and without microseconds.
Nows == [year : {2026}, month : {11}, day : {4}, usec : {0, 123456}] \cup
        [year : {2024}, month : {2}, day : {29}, usec : {0, 123456}]

IsLeap(y) == y % 4 = 0 /\ (y % 100 # 0 \/ y % 400 = 0)

MonthLen(y, m) ==
    IF m = 2 THEN (IF IsLeap(y) THEN 29 ELSE 28)
    ELSE IF m \in {4, 6, 9, 11} THEN 30 ELSE 31

RECURSIVE DaysBeforeMonth(_, _)
DaysBeforeMonth(y, m) == IF m = 1 THEN 0 ELSE DaysBeforeMonth(y, m - 1) + MonthLen(y, m - 1)

\* date.toordinal(): 1 for 0001-01-01.
Ordinal(y, m, d) ==
    365 * (y - 1) + ((y - 1) \div 4) - ((y - 1) \div 100) + ((y - 1) \div 400)
        + DaysBeforeMonth(y, m) + d

MaxOrdinal == Ordinal(9999, 12, 31)

DateValue(ordinal, usec) == [ordinal |-> ordinal, usec |-> usec]
Computed(dt) == [out |-> "ok", val |-> Some(dt)]
Absent == [out |-> "ok", val |-> NoneVal]
Raises(e) == [out |-> e]

\* now + relativedelta(unit = n), n negative for now - relativedelta: years
\* and months replace the year and the month and clip the day to the month,
\* which raises ValueError when the year leaves the range; days and weeks
\* are added as a timedelta, which raises OverflowError when the result (or
\* the timedelta itself) leaves the range.
Shift(now, unit, n) ==
    IF unit \in {"years", "months"}
    THEN LET total == now.year * 12 + (now.month - 1) + (IF unit = "years" THEN 12 * n ELSE n)
             year  == total \div 12
             month == (total % 12) + 1
             day   == IF MonthLen(year, month) < now.day THEN MonthLen(year, month)
                      ELSE now.day
         IN  IF year \notin YearRange THEN Raises("ValueError")
             ELSE Computed(DateValue(Ordinal(year, month, day), now.usec))
    ELSE LET days == IF unit = "weeks" THEN 7 * n ELSE n
             ordinal == Ordinal(now.year, now.month, now.day) + days
         IN  IF days \notin TimedeltaDays /\ (0 - days) \notin TimedeltaDays
             THEN Raises("OverflowError")
             ELSE IF ordinal \notin 1..MaxOrdinal THEN Raises("OverflowError")
             ELSE Computed(DateValue(ordinal, now.usec))

\* The entry of the table relative_dates for a phrase.
RelativeDates(now, phrase) ==
    CASE phrase \in {"today", "now"} -> Computed(DateValue(Ordinal(now.year, now.month, now.day),
                                                             now.usec))
      [] phrase = "yesterday"  -> Shift(now, "days", 0 - 1)
      [] phrase = "tomorrow"   -> Shift(now, "days", 1)
      [] phrase = "last week"  -> Shift(now, "weeks", 0 - 1)
      [] phrase = "next week"  -> Shift(now, "weeks", 1)
      [] phrase = "last month" -> Shift(now, "months", 0 - 1)
      [] phrase = "next month" -> Shift(now, "months", 1)
      [] phrase = "last year"  -> Shift(now, "years", 0 - 1)
      [] phrase = "next year"  -> Shift(now, "years", 1)

\* str.strip() and str.lower()
Strip(text) == [text EXCEPT !.pad = FALSE]
LowerText(text) == [text EXCEPT !.upper = FALSE]

\* parse_relative_date: the lowered text is looked up in the table by
\* equality, so surrounding blanks hide a phrase; the patterns, written in
\* lower case, are searched anywhere in the lowered text.
ParseRelativeDate(date_string, now) ==
    LET date_string_lower == LowerText(date_string)
        body == date_string_lower.body
    IN  IF date_string_lower.upper THEN Absent
        ELSE IF body.kind = "phrase" /\ ~date_string_lower.pad
        THEN RelativeDates(now, body.phrase)
        ELSE IF body.kind = "ago" THEN Shift(now, body.unit, 0 - body.n)
        ELSE IF body.kind = "in" THEN Shift(now, body.unit, body.n)
        ELSE Absent

\* dateutil's parser.parse(date_string, fuzzy=True, dayfirst=...) on the
\* stripped text: the answer given for a free text; the empty text and a
\* phrase surrounded by nothing the parser knows are no dates.
ParserParse(text, attempt, now) ==
    LET answer == IF text.body.kind = "free"
                  THEN (IF attempt = 1 THEN text.body.first ELSE text.body.second)
                  ELSE "ParserError"
    IN  IF answer = "datetime"
        THEN Computed(DateValue(Ordinal(now.year, now.month, now.day), 0))
        ELSE Raises(answer)

\* replace(microsecond=0) when microseconds are not wanted, then isoformat()
\* when the ISO text is wanted.
Finish(dt, return_iso, include_microseconds) ==
    LET d == IF include_microseconds THEN dt ELSE [dt EXCEPT !.usec = 0]
    IN  IF return_iso
        THEN Computed(IF d.usec = 0 THEN <<d.ordinal>> ELSE <<d.ordinal, d.usec>>)
        ELSE Computed(d)

Caught(e) == e \in {"ParserError", "ValueError"}

\* parse_date_string
ParseDateString(date_string, return_iso, include_microseconds, now) ==
    IF date_string.type # "str" \/ (date_string.body.kind = "empty" /\ ~date_string.pad)
    THEN Absent
    ELSE LET relative_dt == ParseRelativeDate(Strip(date_string), now)
             first  == ParserParse(Strip(date_string), 1, now)
             second == ParserParse(Strip(date_string), 2, now)
         IN  IF relative_dt.out # "ok" THEN relative_dt
             ELSE IF relative_dt.val.some
             THEN Finish(relative_dt.val.val, return_iso, include_microseconds)
             ELSE IF first.out = "ok"
             THEN Finish(first.val.val, return_iso, include_microseconds)
             ELSE IF ~Caught(first.out) THEN first
             ELSE IF second.out = "ok"
             THEN Finish(second.val.val, return_iso, include_microseconds)
             ELSE IF ~Caught(second.out) THEN second
             ELSE Absent

DCall(op, date_string, return_iso, include_microseconds, now, res) ==
    [op |-> op, date_string |-> date_string, return_iso |-> return_iso,
     include_microseconds |-> include_microseconds, now |-> now, res |-> res]

\* A caller holds an input and the two flags; the clock shows one of Nows.
DateInit ==
    /\ handlers = DefaultHandlers
    /\ nextId = 1
    /\ print = "builtin"
    /\ mgr = [m \in Mgrs |-> Unbuilt]
    /\ AppIdle
    /\ \E date_string \in DateStrings, return_iso \in BOOLEAN,
          include_microseconds \in BOOLEAN, now \in Nows :
          last = DCall("request", date_string, return_iso, include_microseconds, now,
                       [out |-> "none"])

DParseDateString ==
    /\ last.op = "request"
    /\ last' = [last EXCEPT !.op = "parse_date_string",
                            !.res = ParseDateString(last.date_string, last.return_iso,
                                                    last.include_microseconds, last.now)]
    /\ UNCHANGED <<lmVars, appVars, schedVars>>

\* parse_relative_date called directly, on a text as it is.
DParseRelativeDate ==
    /\ last.op = "request"
    /\ last.date_string.type = "str"
    /\ last' = [last EXCEPT !.op = "parse_relative_date",
                            !.res = ParseRelativeDate(last.date_string, last.now)]
    /\ UNCHANGED <<lmVars, appVars, schedVars>>

DateNext ==
    \/ DParseDateString
    \/ DParseRelativeDate

SpecDate == DateInit /\ [][DateNext]_vars

\* C23: parse_date_string never raises: absent, empty or non-text input
\* returns absent, and a text that neither the table of phrases, nor the
\* patterns '<N> <unit> ago' and 'in <N> <unit>' (for every N), nor the two
\* parsing attempts can interpret returns absent.
C23_ParseDateStringNeverRaises ==
    last.op = "parse_date_string" =>
        /\ last.res.out = "ok"
        /\ ( \/ last.date_string.type # "str"
             \/ last.date_string.body.kind = "empty" ) => last.res = Absent
        /\ ( /\ last.date_string.type = "str"
             /\ last.date_string.body.kind = "free"
             /\ last.date_string.body.first # "datetime"
             /\ last.date_string.body.second # "datetime" ) => last.res = Absent

----------------------------------------------------------------------------
(* logger_manager.py: the wrapper log_performance puts around a callable.    *)
(* The callable is given by what it does when invoked (FuncOutcomes), an     *)
(* argument by whether its repr() can be taken.                              *)

ArgValues == {"a", "unprintable"}
ArgLists == {<<>>} \cup {<<x>> : x \in ArgValues} \cup {<<x, y>> : x, y \in ArgValues}

\* repr(arg) raises for an argument whose __repr__ raises.
ReprRaises(args) == \E i \in 1..Len(args) : args[i] = "unprintable"

\* The part of the message that shows the arguments: empty unless asked for.
ArgStr(include_args, args) == IF include_args THEN args ELSE <<>>

LogRecord(level, text, arg_str) == [level |-> level, text |-> text, arg_str |-> arg_str]

Invocation(calls, log, res) == [calls |-> calls, log |-> log, res |-> res]

\* The wrapper with the raise after the logging forgotten.
LogPerformanceWrapperSwallows(include_args, log_exceptions, args, func) ==
    IF include_args /\ ReprRaises(args)
    THEN Invocation(<<>>, <<>>, [kind |-> "Exception", val |-> "repr"])
    ELSE IF func.kind = "return"
    THEN Invocation(<<args>>,
                    <<LogRecord("info", "executed successfully", ArgStr(include_args, args))>>,
                    func)
    ELSE IF func.kind = "Exception"
    THEN Invocation(<<args>>,
                    IF log_exceptions
                    THEN <<LogRecord("exception", "failed", ArgStr(include_args, args))>>
                    ELSE <<>>,
                    [kind |-> "return", val |-> "None"])
    ELSE Invocation(<<args>>, <<>>, func)

\* wrapper(*args) of log_performance(include_args, log_exceptions)(func): the
\* argument string is built before the try block, and except Exception
\* catches the Exception class only.
LogPerformanceWrapper(include_args, log_exceptions, args, func) ==
    IF include_args /\ ReprRaises(args)
    THEN Invocation(<<>>, <<>>, [kind |-> "Exception", val |-> "repr"])
    ELSE IF func.kind = "return"
    THEN Invocation(<<args>>,
                    <<LogRecord("info", "executed successfully", ArgStr(include_args, args))>>,
                    func)
    ELSE IF func.kind = "Exception"
    THEN Invocation(<<args>>,
                    IF log_exceptions
                    THEN <<LogRecord("exception", "failed", ArgStr(include_args, args))>>
                    ELSE <<>>,
                    func)
    ELSE Invocation(<<args>>, <<>>, func)

\* A caller holds a wrapped callable, the two flags it was wrapped with and
\* the arguments of one call.
PerfInit ==
    /\ handlers = DefaultHandlers
    /\ nextId = 1
    /\ print = "builtin"
    /\ mgr = [m \in Mgrs |-> Unbuilt]
    /\ AppIdle
    /\ \E include_args \in BOOLEAN, log_exceptions \in BOOLEAN, args \in ArgLists,
          func \in FuncOutcomes :
          last = [ op |-> "request", include_args |-> include_args,
                   log_exceptions |-> log_exceptions, args |-> args, func |-> func,
                   run |-> Invocation(<<>>, <<>>, NoOutcome) ]

PWrapper ==
    /\ last.op = "request"
    /\ last' = [last EXCEPT !.op = "wrapper",
                            !.run = LogPerformanceWrapper(last.include_args, last.log_exceptions,
                                                          last.args, last.func)]
    /\ UNCHANGED <<lmVars, appVars, schedVars>>

PerfNext == PWrapper

SpecPerf == PerfInit /\ [][PerfNext]_vars

\* The wrapped callable was invoked, once and with the caller's arguments.
Invoked == last.op = "wrapper" /\ last.run.calls = <<last.args>>

\* C24 as stated: the wrapper returns the original's result unchanged after
\* logging one success record; on failure it re-raises the original
\* exception in every case, having logged it exactly when log_exceptions was
\* requested; a failure never becomes a normal return.
C24_FailureLoggedWhenRequested ==
    Invoked =>
        /\ last.run.res = last.func
        /\ last.func.kind = "return" =>
              /\ Len(last.run.log) = 1
              /\ last.run.log[1].level = "info"
        /\ last.func.kind # "return" =>
              /\ last.log_exceptions => ( /\ Len(last.run.log) = 1
                                          /\ last.run.log[1].level = "exception" )
              /\ ~last.log_exceptions => last.run.log = <<>>

\* C24 (amended): the wrapper returns the original's result unchanged after
\* logging one success record; on failure it re-raises the original
\* exception in every case, having logged it exactly when log_exceptions was
\* requested and the exception derives from Exception (one outside
\* Exception, such as SystemExit, passes unlogged); a failure never becomes
\* a normal return.
C24_ExceptionLoggedWhenRequested ==
    /\ last.op = "wrapper" => (last.run.res.kind = "return" => last.func.kind = "return")
    /\ Invoked =>
        /\ last.run.res = last.func
        /\ last.func.kind = "return" =>
              /\ Len(last.run.log) = 1
              /\ last.run.log[1].level = "info"
        /\ last.func.kind # "return" =>
              /\ (last.log_exceptions /\ last.func.kind = "Exception") =>
                    ( /\ Len(last.run.log) = 1
                      /\ last.run.log[1].level = "exception" )
              /\ ~(last.log_exceptions /\ last.func.kind = "Exception") =>
                    last.run.log = <<>>

\* A callable that raised e1 was wrapped with log_exceptions: the wrapper
\* logged the exception and raised e1.
C24_Witness ==
    /\ Invoked
    /\ last.log_exceptions
    /\ last.func = [kind |-> "Exception", val |-> "e1"]
    /\ last.run.res = [kind |-> "Exception", val |-> "e1"]
    /\ Len(last.run.log) = 1
    /\ last.run.log[1].level = "exception"

----------------------------------------------------------------------------
(* Properties of several LoggerManagers and of the scheduler manager. *)

\* The state cleanup() leaves a manager in, and in which a further cleanup()
\* changes nothing.
CleanedUp(m) ==
    /\ mgr[m].built
    /\ mgr[m].handler_ids = <<>>
    /\ ~mgr[m].print_redirected

\* C25: once every LoggerManager that was constructed has been cleaned up,
\* in whatever order, the installed print is the one installed before the
\* first manager was constructed; and while a manager's redirected flag is
\* true the installed print is a redirecting one.
C25_PrintRestoredAfterCleanups ==
    /\ ( /\ \E m \in Mgrs : mgr[m].built
         /\ \A m \in Mgrs : mgr[m].built => CleanedUp(m) ) => print = "builtin"
    /\ \A m \in Mgrs : mgr[m].print_redirected => print # "builtin"

\* The tracked list of m holds no identifier twice, and each is registered.
TrackedAreLive(m) ==
    /\ Cardinality(Range(mgr[m].handler_ids)) = Len(mgr[m].handler_ids)
    /\ \A id \in Range(mgr[m].handler_ids) : \E h \in handlers : h.id = id

\* C26: while a LoggerManager is the only one, after any of its calls its
\* tracked list holds no duplicates and every tracked identifier is
\* registered; constructing a second LoggerManager removes every sink then
\* registered, the first manager's too, whose tracked list is left as it
\* was: none of the identifiers it tracks is registered any more.
C26_TrackedIdsLiveUntilSecondManager ==
    [][ /\ \A m \in Mgrs : (mgr'[m].built /\ \A o \in Mgrs \ {m} : ~mgr'[o].built)
              => /\ Cardinality(Range(mgr'[m].handler_ids)) = Len(mgr'[m].handler_ids)
                 /\ \A id \in Range(mgr'[m].handler_ids) : \E h \in handlers' : h.id = id
        /\ \A m \in Mgrs :
              (last'.op = "construct" /\ last'.m # m /\ mgr[m].built)
              => /\ mgr'[m].handler_ids = mgr[m].handler_ids
                 /\ \A h \in handlers' : h.owner = last'.m /\ h.id >= nextId
                 /\ \A id \in Range(mgr[m].handler_ids) : ~\E h \in handlers' : h.id = id
      ]_vars

\* A second manager was constructed while the first tracked two live
\* identifiers: the first still tracks them and neither is registered.
C26_Witness ==
    /\ last.op = "construct"
    /\ last.m = "m2"
    /\ Len(mgr["m1"].handler_ids) = 2
    /\ ~TrackedAreLive("m1")
    /\ TrackedAreLive("m2")

\* C27: add_job (the body of add_scheduled_job too) on a manager whose
\* scheduler has not been initialized (not flagged initialized, never
\* started) fails with an error, registers no job and leaves the manager as
\* it was, uninitialized.
C27_AddJobNeedsInitializedScheduler ==
    [][ ( /\ last'.op = "add_job"
          /\ ~sm.initialized
          /\ NeverStarted(sm) ) =>
            /\ last'.out # "ok"
            /\ sm' = sm ]_vars

\* C28: after any sequence of init_scheduler, get_scheduler, add_job,
\* get_jobs_status and shutdown calls on the manager, the initialized flag
\* is true only if the manager holds a scheduler and that scheduler is
\* running; a get_scheduler() that returns normally returns the manager's
\* scheduler, which is running.
C28_InitializedMeansRunning ==
    /\ sm.initialized =>
          /\ sm.scheduler # 0
          /\ sm.scheds[sm.scheduler].running
    /\ (last.op = "get_scheduler" /\ last.out = "ok") =>
          /\ last.id # 0
          /\ last.id = sm.scheduler
          /\ sm.scheds[last.id].running

\* get_scheduler() was called after a shutdown: it returned a second
\* scheduler, which is running, and the first one is stopped.
C28_Witness ==
    /\ last.op = "get_scheduler"
    /\ last.out = "ok"
    /\ last.id = 2
    /\ sm.initialized
    /\ sm.scheds[2].running
    /\ ~sm.scheds[1].running

\* C29: set_filter leaves the print redirection as it was: a manager whose
\* redirection had been reverted is still not redirected after the call and
\* the installed print is unchanged; a redirected manager is still
\* redirected, and a restore_print() afterwards installs the print captured
\* at construction.
C29_SetFilterKeepsPrintState ==
    [][ last'.op = "set_filter" =>
          LET m == last'.m
              after == [handlers |-> handlers', nextId |-> nextId',
                        print |-> print', mgr |-> mgr']
          IN  /\ mgr'[m].print_redirected = mgr[m].print_redirected
              /\ print' = print
              /\ mgr[m].print_redirected
                    => RestorePrint(after, m).print = mgr[m].original_print ]_vars

====
